---- MODULE Spec2Model ----
(***************************************************************************)
(* Model of the chat session hook of sentinel-core's frontend              *)
(* (frontend/src/hooks/useChatSession.ts, second version of the hook,      *)
(* lines 326-884): the message reconciler functions, the streaming client  *)
(* streamQuery with its framing buffer, sendMessage, and the sessionId     *)
(* effect that switches conversations.                                     *)
(*                                                                         *)
(* The attachment handlers and the background task poller                  *)
(* (frontend/src/hooks/useTaskPolling.ts) are modelled as well.            *)
(*                                                                         *)
(* The specifications share the variables:                                 *)
(*   SpecReconciler  the four reconciler functions applied to lists that   *)
(*                   sendMessage and the reconciler itself can produce;    *)
(*   SpecFraming     one stream's read loop over every split of a          *)
(*                   response body into reads;                             *)
(*   Spec            the hook: conversation switches, history loads,       *)
(*                   sendMessage and the streams it opens;                 *)
(*   SpecEndToEnd    one question sent in an idle session, answered by a   *)
(*                   well-formed token stream, read in every split;        *)
(*   SpecAttachments handleAttachFile, handleRequestPromotion and the      *)
(*                   poller, with React's deferred effect cleanup;         *)
(*   SpecReplay      an event sequence folded from the empty list twice,   *)
(*                   with the random part of the message ids;              *)
(*   SpecFaults      one stream whose body holds records that do not       *)
(*                   parse and whose connection may fail;                  *)
(*   SpecAdmin       AdminReviewPanel of ContextPanel.tsx: the pending     *)
(*                   list, approval and rejection;                         *)
(*   SpecHeap        the reconciler functions on arrays and objects that   *)
(*                   have an address, as JavaScript holds them;            *)
(*   SpecInterleaved one stream, two uploads and the poller together;      *)
(*   SpecSwitch      uploads in flight across conversation switches;       *)
(*   SpecTimer       the poller's timeout with a clock and re-renders.     *)
(* A specification keeps the variables it does not use at their initial    *)
(* value.                                                                  *)
(***************************************************************************)
EXTENDS Integers, Sequences, FiniteSets, TLC

VARIABLES
  messages,            \* useState<Message[]>                 (useChatSession.ts:391)
  loading,             \* useState(false)                     (useChatSession.ts:392)
  attachments,         \* useState<SessionAttachment[]>       (useChatSession.ts:393)
  abortControllerRef,  \* useRef<AbortController | null>: 0 is null, n is stream n's controller
  sessionId,           \* the hook's sessionId argument: 0 is null
  streams,             \* one record per streamQuery call: where it stands, its locals
  histPending,         \* the conversation ids with a fetchHistory call in flight
  requests,            \* handleAttachFile and handleRequestPromotion calls awaiting the server
  poller,              \* the useTaskPolling instance: taskId state, live effect, queries in flight
  env,                 \* outside the hook: the clock Date.now() reads, the server's indexing jobs
  fr,                  \* SpecFraming: one stream's read loop and what it delivered
  lastStep,            \* history variable: what the last step did
  prevStep,            \* history variable: the operation of the step before the last
  panel,               \* AdminReviewPanel: the pending list as loaded, the attachment under review
  heap                 \* SpecHeap: the arrays and objects the message state refers to, by address

(***************************************************************************)
(* Bounds of the model.                                                    *)
(***************************************************************************)
MaxMsgs == 2
MaxContent == 2

(***************************************************************************)
(* Message (useChatSession.ts:338-354).  content is a sequence of          *)
(* characters; the optional fields sources and toolCall are sequences of   *)
(* length 0 (absent) or 1 (present).  id keeps the deterministic prefix of *)
(* the id the code builds ("user-", "assistant-", "assistant-tool-",       *)
(* "hist-").                                                               *)
(***************************************************************************)
Absent == <<>>

Present(v) == <<v>>

Running == "running"

Completed == "completed"

ToolNames == {"rag", "web_search"}

Chunks == {<<"a">>, <<"b">>}

SourceLists == {<<"hr.pdf">>}

Queries == {<<"q">>, <<" ">>}

\* String.prototype.trim on the queries of the model.
trim(query) == SelectSeq(query, LAMBDA ch : ch # " ")

NewMessage(idKind, role, content, toolCall) ==
  [id |-> idKind, role |-> role, content |-> content,
   sources |-> Absent, toolCall |-> toolCall]

LastOf(msgs) == msgs[Len(msgs)]

ReplaceLast(msgs, m) == [msgs EXCEPT ![Len(msgs)] = m]

(***************************************************************************)
(* The reconciler functions.                                               *)
(***************************************************************************)
\* updateAssistant with the toolCall test dropped (mutant of updateAssistant).
updateAssistant_NoToolCallTest(msgs, tokenPayload) ==
  IF \/ Len(msgs) = 0
     \/ LastOf(msgs).role # "assistant"
     \/ tokenPayload.new_message
  THEN Append(msgs, NewMessage("assistant", "assistant", tokenPayload.chunk, Absent))
  ELSE ReplaceLast(msgs, [LastOf(msgs) EXCEPT !.content = @ \o tokenPayload.chunk])

\* updateAssistant that returns the new message alone, without spreading the
\* list in front of it (mutant).
updateAssistant_DropsList(msgs, tokenPayload) ==
  IF \/ Len(msgs) = 0
     \/ LastOf(msgs).role # "assistant"
     \/ LastOf(msgs).toolCall # Absent
     \/ tokenPayload.new_message
  THEN <<NewMessage("assistant", "assistant", tokenPayload.chunk, Absent)>>
  ELSE ReplaceLast(msgs, [LastOf(msgs) EXCEPT !.content = @ \o tokenPayload.chunk])

\* updateAssistant that puts the chunk in front of the content (mutant).
updateAssistant_Prepends(msgs, tokenPayload) ==
  IF \/ Len(msgs) = 0
     \/ LastOf(msgs).role # "assistant"
     \/ LastOf(msgs).toolCall # Absent
     \/ tokenPayload.new_message
  THEN Append(msgs, NewMessage("assistant", "assistant", tokenPayload.chunk, Absent))
  ELSE ReplaceLast(msgs, [LastOf(msgs) EXCEPT !.content = tokenPayload.chunk \o @])

updateAssistant(msgs, tokenPayload) ==
  IF \/ Len(msgs) = 0
     \/ LastOf(msgs).role # "assistant"
     \/ LastOf(msgs).toolCall # Absent
     \/ tokenPayload.new_message
  THEN Append(msgs, NewMessage("assistant", "assistant", tokenPayload.chunk, Absent))
  ELSE ReplaceLast(msgs, [LastOf(msgs) EXCEPT !.content = @ \o tokenPayload.chunk])

\* addOrUpdateToolCall that always opens a new bubble (mutant).
addOrUpdateToolCall_AlwaysAppend(msgs, toolName) ==
  Append(msgs, NewMessage("assistant-tool", "assistant", <<>>,
                          Present([name |-> toolName, status |-> Running])))

addOrUpdateToolCall(msgs, toolName) ==
  IF /\ Len(msgs) > 0
     /\ LastOf(msgs).role = "assistant"
     /\ LastOf(msgs).toolCall # Absent
     /\ LastOf(msgs).toolCall[1].status = Running
  THEN ReplaceLast(msgs, [LastOf(msgs) EXCEPT
                            !.toolCall = Present([@[1] EXCEPT !.name = toolName])])
  ELSE Append(msgs, NewMessage("assistant-tool", "assistant", <<>>,
                               Present([name |-> toolName, status |-> Running])))

\* completeToolCall that ignores the tool name (mutant).
completeToolCall_AnyName(msgs, toolName) ==
  IF /\ Len(msgs) > 0
     /\ LastOf(msgs).role = "assistant"
     /\ LastOf(msgs).toolCall # Absent
  THEN ReplaceLast(msgs, [LastOf(msgs) EXCEPT
                            !.toolCall = Present([@[1] EXCEPT !.status = Completed])])
  ELSE msgs

completeToolCall(msgs, toolName) ==
  IF /\ Len(msgs) > 0
     /\ LastOf(msgs).role = "assistant"
     /\ LastOf(msgs).toolCall # Absent
     /\ LastOf(msgs).toolCall[1].name = toolName
  THEN ReplaceLast(msgs, [LastOf(msgs) EXCEPT
                            !.toolCall = Present([@[1] EXCEPT !.status = Completed])])
  ELSE msgs

\* attachSources without the role test (mutant).
attachSources_AnyRole(msgs, sources) ==
  IF Len(msgs) = 0
  THEN msgs
  ELSE ReplaceLast(msgs, [LastOf(msgs) EXCEPT !.sources = Present(sources)])

attachSources(msgs, sources) ==
  IF Len(msgs) = 0 \/ LastOf(msgs).role # "assistant"
  THEN msgs
  ELSE ReplaceLast(msgs, [LastOf(msgs) EXCEPT !.sources = Present(sources)])

\* The optimistic user message of sendMessage.
outgoing(query) == NewMessage("user", "user", query, Absent)

(***************************************************************************)
(* The wire format (streamQuery, lines 806-847).  A response body is a     *)
(* sequence of bytes.  "d" is the prefix "data: ", "N" a line feed, k1 k2  *)
(* the two bytes of one multi-byte character K; every other byte is one    *)
(* JSON payload:                                                           *)
(*   t  {"event":"token","data":{"chunk":"a","new_message":false}}         *)
(*   n  {"event":"token","data":{"chunk":"b","new_message":true}}          *)
(*   K  {"event":"token","data":{"chunk":"K","new_message":false}}         *)
(*   s  {"event":"sources","data":[{"display_name":"hr.pdf"}]}             *)
(*   b  {"event":"tool_start","data":{"name":"rag"}}                       *)
(*   w  {"event":"tool_start","data":{"name":"web_search"}}                *)
(*   c  {"event":"tool_end","data":{"name":"rag"}}                         *)
(*   e  {"event":"end"}                                                    *)
(*   r  {"event":"error","data":"boom"}                                    *)
(*   x  text that JSON.parse rejects                                       *)
(***************************************************************************)
Payloads == {"t", "n", "K", "s", "b", "w", "c", "e", "r"}

\* TextDecoder("utf-8").decode(value, {stream: true}): pending is the lead
\* byte kept from the previous call (<<>> or <<"k1">>).  An incomplete or
\* stray byte of the multi-byte character decodes to U+FFFD, written "?".
RECURSIVE decode(_, _)
decode(pending, bytes) ==
  IF bytes = <<>>
  THEN [out |-> <<>>, pending |-> pending]
  ELSE IF pending # <<>>
  THEN IF Head(bytes) = "k2"
       THEN LET rest == decode(<<>>, Tail(bytes))
            IN  [rest EXCEPT !.out = <<"K">> \o @]
       ELSE LET rest == decode(<<>>, bytes)
            IN  [rest EXCEPT !.out = <<"?">> \o @]
  ELSE IF Head(bytes) = "k1"
  THEN decode(<<"k1">>, Tail(bytes))
  ELSE LET rest == decode(<<>>, Tail(bytes))
       IN  [rest EXCEPT !.out = <<(IF Head(bytes) = "k2" THEN "?" ELSE Head(bytes))>> \o @]

\* String.prototype.split("\n\n"): the parts between the leftmost,
\* non-overlapping occurrences of two line feeds; cur is the part being read.
RECURSIVE splitFrom(_, _)
splitFrom(chars, cur) ==
  IF chars = <<>>
  THEN <<cur>>
  ELSE IF Len(chars) >= 2 /\ chars[1] = "N" /\ chars[2] = "N"
  THEN <<cur>> \o splitFrom(SubSeq(chars, 3, Len(chars)), <<>>)
  ELSE splitFrom(Tail(chars), Append(cur, Head(chars)))

split(chars) == splitFrom(chars, <<>>)

\* One line of the for loop (lines 819-845): the handler it calls, as a
\* sequence of zero or one payload.  A line that does not start with
\* "data: " is ignored; one whose rest JSON.parse rejects is logged and
\* skipped.
parseLine(line) ==
  IF Len(line) = 0 \/ line[1] # "d"
  THEN <<>>
  ELSE IF Len(line) = 2 /\ line[2] \in Payloads
  THEN <<line[2]>>
  ELSE <<>>

RECURSIVE parseLines(_)
parseLines(lines) ==
  IF lines = <<>> THEN <<>> ELSE parseLine(Head(lines)) \o parseLines(Tail(lines))

Front(seq) == SubSeq(seq, 1, Len(seq) - 1)

\* A loop that forgets the unterminated rest of the buffer between reads.
readChunk_DropsRemainder(acc, pending, value) ==
  LET dec   == decode(pending, value)
      lines == split(dec.out)
      calls == parseLines(Front(lines))
  IN  [acc     |-> lines[Len(lines)],
       pending |-> dec.pending,
       calls   |-> calls,
       ended   |-> \E i \in 1..Len(calls) : calls[i] \in {"e", "r"}]

\* A loop without the try/catch around JSON.parse: a payload that does not
\* parse throws out of the loop, and the lines behind it are not dispatched.
readChunk_ParseErrorEnds(acc, pending, value) ==
  LET dec   == decode(pending, value)
      lines == split(acc \o dec.out)
      whole == Front(lines)
      bad   == {i \in 1..Len(whole) :
                  /\ Len(whole[i]) > 0
                  /\ whole[i][1] = "d"
                  /\ parseLine(whole[i]) = <<>>}
      upto  == IF bad = {} THEN Len(whole)
               ELSE (CHOOSE i \in bad : \A k \in bad : i <= k) - 1
      calls == parseLines(SubSeq(whole, 1, upto))
  IN  [acc     |-> lines[Len(lines)],
       pending |-> dec.pending,
       calls   |-> calls,
       ended   |-> bad # {} \/ \E i \in 1..Len(calls) : calls[i] \in {"e", "r"}]

\* The body of the while loop after a read that is not done (lines 810-845):
\* the new accumulatedChunks, the decoder's pending byte, the handler calls
\* in order, and whether `ended` was set.
readChunk(acc, pending, value) ==
  LET dec   == decode(pending, value)
      lines == split(acc \o dec.out)
      calls == parseLines(Front(lines))
  IN  [acc     |-> lines[Len(lines)],
       pending |-> dec.pending,
       calls   |-> calls,
       ended   |-> \E i \in 1..Len(calls) : calls[i] \in {"e", "r"}]

(***************************************************************************)
(* Variables and the values the specifications start from.                 *)
(***************************************************************************)
vars == <<messages, loading, attachments, abortControllerRef, sessionId,
          streams, histPending, requests, poller, env, fr, lastStep, prevStep, panel, heap>>

sessionVars == <<loading, attachments, abortControllerRef, sessionId,
                 streams, histPending, requests, poller, env, panel, heap>>

MaxStreams == 3

StreamIds == 1..MaxStreams

\* The conversation ids of the model; 0 stands for null.
SessionIds == {1, 2}

\* A streamQuery call that has not been made yet.
NewStream == [pc |-> "new", aborted |-> FALSE, acc |-> <<>>, pending |-> <<>>]

NoFraming == [body |-> <<>>, rest |-> <<>>, acc |-> <<>>, pending |-> <<>>,
              ended |-> FALSE, done |-> FALSE, calls |-> <<>>]

\* The files a user submits, in the order of submission; file f's upload is
\* answered with task_id f and attachment_id f.
FileIds == {1, 2}

\* What the poller has done for one job (history): whether startPolling was
\* called for it, how many success/failure/error callbacks it invoked, how
\* many of those were error callbacks, and how many timeout callbacks
\* (counted up to 2).
NoCalls == [started |-> FALSE, fired |-> 0, errors |-> 0, timeouts |-> 0]

\* useTaskPolling after the first render (useTaskPolling.ts:30-33): taskId is
\* null (0), the effect returned early, nothing is in flight.  calls counts,
\* per job, the callbacks the poller has invoked (history).
PollerIdle == [taskId |-> 0, effectTask |-> 0, timeout |-> FALSE,
               inflight |-> 0, stale |-> 0,
               calls |-> [j \in FileIds |-> NoCalls]]

\* The clock has not been read, no file was submitted, and every indexing
\* job the server will run ends in SUCCESS.
EnvIdle == [now |-> 0, submitted |-> 0, outcome |-> [j \in FileIds |-> "SUCCESS"]]

\* AdminReviewPanel after its first render (ContextPanel.tsx:229-239): the
\* pending list has not been loaded, no attachment is under review.
PanelIdle == [pending |-> <<>>, selected |-> 0]

\* Outside SpecHeap arrays and objects are values, and the heap is empty.
HeapIdle == [objs |-> <<>>, root |-> 0]

\* The hook's state after the first render with sessionId = null.
SessionIdle ==
  /\ loading = FALSE
  /\ attachments = <<>>
  /\ abortControllerRef = 0
  /\ sessionId = 0
  /\ streams = [s \in StreamIds |-> NewStream]
  /\ histPending = {}
  /\ requests = {}
  /\ poller = PollerIdle
  /\ panel = PanelIdle
  /\ heap = HeapIdle
  /\ env = EnvIdle

(***************************************************************************)
(* SpecReconciler: the reconciler functions, applied one event at a time   *)
(* the way the handlers of sendMessage apply them (lines 611-618), from the *)
(* lists a history load produces (lines 427-433).  lastStep records the    *)
(* function applied, its argument and the list it was applied to.          *)
(***************************************************************************)
histMessage(role, content) == NewMessage("hist", role, content, Absent)

HistoryLists ==
  { <<>>,
    <<histMessage("user", <<"q">>), histMessage("assistant", <<"a">>)>> }

InBounds(msgs) ==
  /\ Len(msgs) <= MaxMsgs
  /\ \A i \in 1..Len(msgs) : Len(msgs[i].content) <= MaxContent

RcStep(op, arg, result) ==
  /\ InBounds(result)
  /\ messages' = result
  /\ lastStep' = [op |-> op, arg |-> arg, before |-> messages]
  /\ prevStep' = lastStep.op
  /\ UNCHANGED <<sessionVars, fr>>

RcInit ==
  /\ messages \in HistoryLists
  /\ lastStep = [op |-> "init", arg |-> <<>>, before |-> <<>>]
  /\ prevStep = "init"
  /\ SessionIdle
  /\ fr = NoFraming

RcSend == \E q \in {x \in Queries : trim(x) # <<>>} : RcStep("send", q, Append(messages, outgoing(q)))

RcToken ==
  \E c \in Chunks, nm \in BOOLEAN :
    LET p == [chunk |-> c, new_message |-> nm]
    IN  RcStep("token", p, updateAssistant(messages, p))

RcToolStart == \E n \in ToolNames : RcStep("tool_start", n, addOrUpdateToolCall(messages, n))

RcToolEnd == \E n \in ToolNames : RcStep("tool_end", n, completeToolCall(messages, n))

RcSources == \E src \in SourceLists : RcStep("sources", src, attachSources(messages, src))

RcNext == RcSend \/ RcToken \/ RcToolStart \/ RcToolEnd \/ RcSources

SpecReconciler == RcInit /\ [][RcNext]_vars

(***************************************************************************)
(* Claims about the reconciler functions (SpecReconciler).                 *)
(***************************************************************************)
Before == lastStep.before

HasToolCall(m) == m.toolCall # Absent

\* C4: onToken appends a new assistant message with content = chunk when the
\* list is empty, or its last message is a user message, or its last message
\* carries a toolCall, or new_message is true; in every other case it appends
\* chunk to the content of the last message and adds no message.
C4_OnToken ==
  lastStep.op = "token" =>
    IF \/ Before = <<>>
       \/ LastOf(Before).role = "user"
       \/ HasToolCall(LastOf(Before))
       \/ lastStep.arg.new_message
    THEN messages = Before \o <<[id |-> "assistant", role |-> "assistant",
                                 content |-> lastStep.arg.chunk,
                                 sources |-> Absent, toolCall |-> Absent]>>
    ELSE /\ Len(messages) = Len(Before)
         /\ \A i \in 1..Len(Before) :
              messages[i] = IF i < Len(Before)
                            THEN Before[i]
                            ELSE [Before[i] EXCEPT !.content = Before[i].content \o lastStep.arg.chunk]

\* A token without new_message arrived after a tool bubble and opened a new
\* message instead of growing the bubble.
C4_Witness ==
  /\ lastStep.op = "token"
  /\ ~lastStep.arg.new_message
  /\ Before # <<>>
  /\ HasToolCall(LastOf(Before))
  /\ Len(messages) = Len(Before) + 1

\* C5: onToolStart replaces the tool name in place when the last message is
\* an assistant message whose toolCall is running, and otherwise appends one
\* assistant message with empty content and toolCall {name, running}; so
\* tool_start(a) directly followed by tool_start(b) leaves one tool message,
\* named b.
C5_OnToolStart ==
  lastStep.op = "tool_start" =>
    /\ IF /\ Before # <<>>
          /\ LastOf(Before).role = "assistant"
          /\ HasToolCall(LastOf(Before))
          /\ LastOf(Before).toolCall[1].status = "running"
       THEN /\ Len(messages) = Len(Before)
            /\ \A i \in 1..(Len(Before) - 1) : messages[i] = Before[i]
            /\ LastOf(messages) =
                 [LastOf(Before) EXCEPT !.toolCall = <<[name |-> lastStep.arg, status |-> "running"]>>]
       ELSE messages = Before \o <<[id |-> "assistant-tool", role |-> "assistant",
                                    content |-> <<>>, sources |-> Absent,
                                    toolCall |-> <<[name |-> lastStep.arg, status |-> "running"]>>]>>
    /\ prevStep = "tool_start" =>
         /\ Len(messages) = Len(Before)
         /\ LastOf(messages).toolCall = <<[name |-> lastStep.arg, status |-> "running"]>>
         /\ Len(messages) = 1 \/ ~HasToolCall(messages[Len(messages) - 1])
                              \/ messages[Len(messages) - 1].toolCall[1].status = "completed"

\* tool_start("rag") directly followed by tool_start("web_search").
C5_Witness ==
  /\ lastStep.op = "tool_start"
  /\ prevStep = "tool_start"
  /\ lastStep.arg = "web_search"
  /\ LastOf(Before).toolCall[1].name = "rag"

\* C6: onToolEnd sets the status to completed when the last message's
\* toolCall.name equals name, and returns the list unchanged in every other
\* case.
C6_OnToolEnd ==
  lastStep.op = "tool_end" =>
    IF /\ Before # <<>>
       /\ HasToolCall(LastOf(Before))
       /\ LastOf(Before).toolCall[1].name = lastStep.arg
    THEN /\ Len(messages) = Len(Before)
         /\ \A i \in 1..(Len(Before) - 1) : messages[i] = Before[i]
         /\ LastOf(messages) =
              [LastOf(Before) EXCEPT !.toolCall = <<[name |-> lastStep.arg, status |-> "completed"]>>]
    ELSE messages = Before

\* A tool_end for another tool than the running one left the list as it was.
C6_Witness ==
  /\ lastStep.op = "tool_end"
  /\ Before # <<>>
  /\ HasToolCall(LastOf(Before))
  /\ LastOf(Before).toolCall[1].status = "running"
  /\ LastOf(Before).toolCall[1].name # lastStep.arg
  /\ messages = Before

\* C7: onSources sets sources on the last message if and only if the last
\* message is an assistant message; an empty list, or one that ends with a
\* user message, is unchanged.
C7_OnSources ==
  lastStep.op = "sources" =>
    IF Before # <<>> /\ LastOf(Before).role = "assistant"
    THEN /\ Len(messages) = Len(Before)
         /\ \A i \in 1..(Len(Before) - 1) : messages[i] = Before[i]
         /\ LastOf(messages) = [LastOf(Before) EXCEPT !.sources = <<lastStep.arg>>]
    ELSE messages = Before

\* Sources arrived while the last message was the user's: nothing changed.
C7_Witness ==
  /\ lastStep.op = "sources"
  /\ Before # <<>>
  /\ LastOf(Before).role = "user"
  /\ messages = Before

ReconcilerOps == {"token", "tool_start", "tool_end", "sources"}

\* C8: every reconciler step leaves every element but the last unchanged and
\* in place; the list is never reordered, grows by 0 or 1 and never shrinks.
C8_OnlyLastMutated ==
  lastStep.op \in ReconcilerOps =>
    /\ Len(messages) \in {Len(Before), Len(Before) + 1}
    /\ \A i \in 1..(Len(Before) - 1) : messages[i] = Before[i]
    /\ Len(messages) = Len(Before) + 1 => \A i \in 1..Len(Before) : messages[i] = Before[i]

\* A token opened a second message behind a list that already held one.
C8_Witness ==
  /\ lastStep.op = "token"
  /\ Len(Before) >= 1
  /\ Len(messages) = Len(Before) + 1

\* C32: in every reachable list a message that carries a toolCall has empty
\* content (no token chunk is appended to it), and the content of a message
\* only changes by a token appended to it while it is the last element of
\* the list and the assistant's.
C32_ToolCallHasNoContent ==
  /\ \A i \in 1..Len(messages) :
       HasToolCall(messages[i]) => messages[i].content = <<>>
  /\ lastStep.op \in ReconcilerOps \cup {"send"} =>
       \A i \in 1..Len(Before) :
         messages[i].content # Before[i].content =>
           /\ lastStep.op = "token"
           /\ i = Len(Before)
           /\ i = Len(messages)
           /\ Before[i].role = "assistant"
           /\ ~HasToolCall(Before[i])
           /\ messages[i].content = Before[i].content \o lastStep.arg.chunk

\* A token without new_message arrived behind a tool bubble: the bubble's
\* content is still empty and the chunk is in a message of its own.
C32_Witness ==
  /\ lastStep.op = "token"
  /\ ~lastStep.arg.new_message
  /\ Len(messages) = 2
  /\ HasToolCall(messages[1])
  /\ messages[1].content = <<>>
  /\ messages[2].content = lastStep.arg.chunk
  /\ ~HasToolCall(messages[2])

(***************************************************************************)
(* SpecReplay: a sequence of events folded into the list from the empty    *)
(* list, twice.  messages is the list of the first run, lastStep.replay    *)
(* the list of the second run, lastStep.events the events so far.  The id  *)
(* of a message the code creates ends in crypto.randomUUID() (lines 597,   *)
(* 666, 701); here it is the pair of the id's prefix and one of Uuids,     *)
(* drawn for each run.                                                     *)
(***************************************************************************)
MaxEvents == 3

Uuids == {1, 2}

\* The list `after` a function made of `before`, with the random part of
\* the id of the message it appended, if it appended one.
withUuid(before, after, uuid) ==
  IF Len(after) > Len(before)
  THEN ReplaceLast(after, [LastOf(after) EXCEPT !.id = <<@, uuid>>])
  ELSE after

\* The updater an event is folded with (lines 601, 611-618).
fold(msgs, event) ==
  CASE event.type = "send"       -> Append(msgs, outgoing(event.arg))
    [] event.type = "token"      -> updateAssistant(msgs, event.arg)
    [] event.type = "tool_start" -> addOrUpdateToolCall(msgs, event.arg)
    [] event.type = "tool_end"   -> completeToolCall(msgs, event.arg)
    [] event.type = "sources"    -> attachSources(msgs, event.arg)

ReplayInit ==
  /\ messages = <<>>
  /\ lastStep = [op |-> "init", events |-> <<>>, replay |-> <<>>]
  /\ prevStep = "init"
  /\ SessionIdle
  /\ fr = NoFraming

ReplayStep(event) ==
  /\ Len(lastStep.events) < MaxEvents
  /\ \E u1, u2 \in Uuids :
       /\ messages' = withUuid(messages, fold(messages, event), u1)
       /\ lastStep' = [op     |-> event.type,
                       events |-> Append(lastStep.events, event),
                       replay |-> withUuid(lastStep.replay,
                                           fold(lastStep.replay, event), u2)]
  /\ UNCHANGED <<sessionVars, fr, prevStep>>

ReplaySend ==
  \E q \in {x \in Queries : trim(x) # <<>>} : ReplayStep([type |-> "send", arg |-> q])

ReplayToken ==
  \E c \in Chunks, nm \in BOOLEAN :
    ReplayStep([type |-> "token", arg |-> [chunk |-> c, new_message |-> nm]])

ReplayToolStart == \E n \in ToolNames : ReplayStep([type |-> "tool_start", arg |-> n])

ReplayToolEnd == \E n \in ToolNames : ReplayStep([type |-> "tool_end", arg |-> n])

ReplaySources == \E src \in SourceLists : ReplayStep([type |-> "sources", arg |-> src])

ReplayNext ==
  ReplaySend \/ ReplayToken \/ ReplayToolStart \/ ReplayToolEnd \/ ReplaySources

SpecReplay == ReplayInit /\ [][ReplayNext]_vars

IsPlainToken(event) == event.type = "token" /\ ~event.arg.new_message

\* The index of the last event that is not a token with new_message = false
\* (0 when there is none).
LastOtherEvent(events) ==
  LET others == {i \in 1..Len(events) : ~IsPlainToken(events[i])}
  IN  IF others = {} THEN 0 ELSE CHOOSE i \in others : \A k \in others : k <= i

\* The chunks of events[from..Len(events)] in arrival order, concatenated.
RECURSIVE ChunksFrom(_, _)
ChunksFrom(events, from) ==
  IF from > Len(events)
  THEN <<>>
  ELSE events[from].arg.chunk \o ChunksFrom(events, from + 1)

\* C29: after a user message, token events that all have new_message =
\* false leave a last message whose content is the concatenation of their
\* chunks in arrival order.
C29_TokenOrdering ==
  LET events == lastStep.events
      k      == LastOtherEvent(events)
  IN  (/\ lastStep.op = "token"
       /\ k > 0
       /\ k < Len(events)
       /\ events[k].type = "send")
        => /\ LastOf(messages).role = "assistant"
           /\ LastOf(messages).content = ChunksFrom(events, k + 1)
           /\ messages[Len(messages) - 1] = [outgoing(events[k].arg) EXCEPT
                                               !.id = messages[Len(messages) - 1].id]

\* The tokens a and b arrived, in this order, after a user message.
C29_Witness ==
  /\ lastStep.op = "token"
  /\ Len(lastStep.events) = 3
  /\ lastStep.events[1].type = "send"
  /\ IsPlainToken(lastStep.events[2]) /\ lastStep.events[2].arg.chunk = <<"a">>
  /\ IsPlainToken(lastStep.events[3]) /\ lastStep.events[3].arg.chunk = <<"b">>
  /\ LastOf(messages).content = <<"a", "b">>
  /\ Len(messages) = 2

\* C30: replaying the same ordered event sequence through the reconciler
\* functions from the empty list yields the same final list: the same
\* roles, contents, sources, toolCalls and message ids.
C30_ReplayDeterministic == messages = lastStep.replay

WithoutUuids(msgs) ==
  [i \in 1..Len(msgs) |-> [msgs[i] EXCEPT !.id = @[1]]]

\* The two runs agree in everything but the random part of the ids.
ReplayAgreesButForUuids ==
  WithoutUuids(messages) = WithoutUuids(lastStep.replay)

(***************************************************************************)
(* SpecHeap: the reconciler functions as JavaScript runs them, on arrays   *)
(* and objects that have an address.  heap.objs is the sequence of what    *)
(* was allocated so far, an address is an index into it, and heap.root is  *)
(* the address of the array the messages state holds.  An array is [kind,  *)
(* items] with the addresses of its elements; a message is [kind, id,      *)
(* role, content, sources, toolCall] with the address of its toolCall      *)
(* object, or 0; a toolCall is [kind, name, status].  A function gets the  *)
(* address of its argument `messages` and gives the objects it leaves and  *)
(* the address of the array it returns.  messages is the list heap.root    *)
(* stands for; lastStep records the function called, its argument, the     *)
(* address it was given, the objects before the call and the number of     *)
(* calls so far.                                                           *)
(***************************************************************************)
MaxCalls == 3

ArrayObject(items) == [kind |-> "array", items |-> items]

MessageObject(id, role, content, toolCall) ==
  [kind |-> "message", id |-> id, role |-> role, content |-> content,
   sources |-> Absent, toolCall |-> toolCall]

ToolCallObject(name, status) == [kind |-> "toolCall", name |-> name, status |-> status]

\* messages[messages.length - 1]: the address of the last element, 0 for
\* undefined.
lastAt(objs, messagesRef) ==
  LET items == objs[messagesRef].items
  IN  IF items = <<>> THEN 0 ELSE items[Len(items)]

\* An updateAssistant that appends to the content of the last message where
\* it is and returns the array it was given (mutant).
updateAssistantAt_InPlace(objs, messagesRef, tokenPayload) ==
  LET items == objs[messagesRef].items
      last  == lastAt(objs, messagesRef)
      n     == Len(objs)
  IN  IF \/ last = 0
         \/ objs[last].role # "assistant"
         \/ objs[last].toolCall # 0
         \/ tokenPayload.new_message
      THEN [objs |-> objs \o <<MessageObject("assistant", "assistant", tokenPayload.chunk, 0),
                               ArrayObject(Append(items, n + 1))>>,
            ref  |-> n + 2]
      ELSE [objs |-> [objs EXCEPT ![last].content = @ \o tokenPayload.chunk],
            ref  |-> messagesRef]

\* updateAssistant (lines 648-680): newMsg and [...messages, newMsg], or
\* [...messages] with a copy {...last, content} put in its last place.
updateAssistantAt(objs, messagesRef, tokenPayload) ==
  LET items == objs[messagesRef].items
      last  == lastAt(objs, messagesRef)
      n     == Len(objs)
  IN  IF \/ last = 0
         \/ objs[last].role # "assistant"
         \/ objs[last].toolCall # 0
         \/ tokenPayload.new_message
      THEN [objs |-> objs \o <<MessageObject("assistant", "assistant", tokenPayload.chunk, 0),
                               ArrayObject(Append(items, n + 1))>>,
            ref  |-> n + 2]
      ELSE [objs |-> objs \o <<ArrayObject(ReplaceLast(items, n + 2)),
                               [objs[last] EXCEPT !.content = @ \o tokenPayload.chunk]>>,
            ref  |-> n + 1]

\* addOrUpdateToolCall (lines 685-710).
addOrUpdateToolCallAt(objs, messagesRef, toolName) ==
  LET items == objs[messagesRef].items
      last  == lastAt(objs, messagesRef)
      n     == Len(objs)
  IN  IF /\ last # 0
         /\ objs[last].role = "assistant"
         /\ objs[last].toolCall # 0
         /\ objs[objs[last].toolCall].status = Running
      THEN [objs |-> objs \o <<ArrayObject(ReplaceLast(items, n + 3)),
                               [objs[objs[last].toolCall] EXCEPT !.name = toolName],
                               [objs[last] EXCEPT !.toolCall = n + 2]>>,
            ref  |-> n + 1]
      ELSE [objs |-> objs \o <<ToolCallObject(toolName, Running),
                               MessageObject("assistant-tool", "assistant", <<>>, n + 1),
                               ArrayObject(Append(items, n + 2))>>,
            ref  |-> n + 3]

\* completeToolCall (lines 715-727): `return messages` when the last message
\* has no toolCall of that name.
completeToolCallAt(objs, messagesRef, toolName) ==
  LET items == objs[messagesRef].items
      last  == lastAt(objs, messagesRef)
      n     == Len(objs)
  IN  IF /\ last # 0
         /\ objs[last].role = "assistant"
         /\ objs[last].toolCall # 0
         /\ objs[objs[last].toolCall].name = toolName
      THEN [objs |-> objs \o <<ArrayObject(ReplaceLast(items, n + 3)),
                               [objs[objs[last].toolCall] EXCEPT !.status = Completed],
                               [objs[last] EXCEPT !.toolCall = n + 2]>>,
            ref  |-> n + 1]
      ELSE [objs |-> objs, ref |-> messagesRef]

\* attachSources (lines 732-742): `return messages` when there is no last
\* message or it is not the assistant's.
attachSourcesAt(objs, messagesRef, sources) ==
  LET items == objs[messagesRef].items
      last  == lastAt(objs, messagesRef)
      n     == Len(objs)
  IN  IF last = 0 \/ objs[last].role # "assistant"
      THEN [objs |-> objs, ref |-> messagesRef]
      ELSE [objs |-> objs \o <<ArrayObject(ReplaceLast(items, n + 2)),
                               [objs[last] EXCEPT !.sources = Present(sources)]>>,
            ref  |-> n + 1]

\* The updater of sendMessage (lines 596-601): [...prev, outgoing].
appendOutgoingAt(objs, messagesRef, query) ==
  LET n == Len(objs)
  IN  [objs |-> objs \o <<MessageObject("user", "user", query, 0),
                          ArrayObject(Append(objs[messagesRef].items, n + 1))>>,
       ref  |-> n + 2]

\* The list an array stands for.
Deref(objs, ref) ==
  LET items == objs[ref].items
      value(m) == [id |-> m.id, role |-> m.role, content |-> m.content,
                   sources |-> m.sources,
                   toolCall |-> IF m.toolCall = 0 THEN Absent
                                ELSE Present([name   |-> objs[m.toolCall].name,
                                              status |-> objs[m.toolCall].status])]
  IN  [i \in 1..Len(items) |-> value(objs[items[i]])]

\* The arrays the state holds after the first render (an empty array) and
\* after a history load (lines 427-433).
HeapsAtStart ==
  { [objs |-> <<ArrayObject(<<>>)>>, root |-> 1],
    [objs |-> <<MessageObject("hist", "user", <<"q">>, 0),
                MessageObject("hist", "assistant", <<"a">>, 0),
                ArrayObject(<<1, 2>>)>>,
     root |-> 3] }

HpInit ==
  /\ heap \in HeapsAtStart
  /\ messages = Deref(heap.objs, heap.root)
  /\ lastStep = [op |-> "init", arg |-> <<>>, input |-> 0, before |-> <<>>, calls |-> 0]
  /\ prevStep = "init"
  /\ loading = FALSE
  /\ attachments = <<>>
  /\ abortControllerRef = 0
  /\ sessionId = 0
  /\ streams = [s \in StreamIds |-> NewStream]
  /\ histPending = {}
  /\ requests = {}
  /\ poller = PollerIdle
  /\ panel = PanelIdle
  /\ env = EnvIdle
  /\ fr = NoFraming

\* setMessages((prev) => f(prev)): the state holds the array f returned.
HpStep(op, arg, r) ==
  /\ lastStep.calls < MaxCalls
  /\ InBounds(Deref(r.objs, r.ref))
  /\ heap' = [objs |-> r.objs, root |-> r.ref]
  /\ messages' = Deref(r.objs, r.ref)
  /\ lastStep' = [op |-> op, arg |-> arg, input |-> heap.root,
                  before |-> heap.objs, calls |-> lastStep.calls + 1]
  /\ UNCHANGED <<loading, attachments, abortControllerRef, sessionId, streams,
                 histPending, requests, poller, env, fr, prevStep, panel>>

HpSend ==
  \E q \in {x \in Queries : trim(x) # <<>>} :
    HpStep("send", q, appendOutgoingAt(heap.objs, heap.root, q))

HpToken ==
  \E c \in Chunks, nm \in BOOLEAN :
    LET p == [chunk |-> c, new_message |-> nm]
    IN  HpStep("token", p, updateAssistantAt(heap.objs, heap.root, p))

HpToolStart ==
  \E n \in ToolNames : HpStep("tool_start", n, addOrUpdateToolCallAt(heap.objs, heap.root, n))

HpToolEnd ==
  \E n \in ToolNames : HpStep("tool_end", n, completeToolCallAt(heap.objs, heap.root, n))

HpSources ==
  \E src \in SourceLists : HpStep("sources", src, attachSourcesAt(heap.objs, heap.root, src))

HpNext == HpSend \/ HpToken \/ HpToolStart \/ HpToolEnd \/ HpSources

SpecHeap == HpInit /\ [][HpNext]_vars

\* No array or object that existed before the last call was changed by it.
InputNotMutated ==
  \A a \in 1..Len(lastStep.before) : heap.objs[a] = lastStep.before[a]

\* The last call returned an array that did not exist before it.
ReturnedNewList == heap.root > Len(lastStep.before)

NothingToChange ==
  LET old == Deref(lastStep.before, lastStep.input)
  IN  \/ /\ lastStep.op = "tool_end"
         /\ ~(/\ old # <<>>
              /\ LastOf(old).role = "assistant"
              /\ HasToolCall(LastOf(old))
              /\ LastOf(old).toolCall[1].name = lastStep.arg)
      \/ /\ lastStep.op = "sources"
         /\ (old = <<>> \/ LastOf(old).role # "assistant")

HeapAgreesWithValues ==
  lastStep.op # "init" =>
    messages = fold(Deref(lastStep.before, lastStep.input),
                    [type |-> lastStep.op, arg |-> lastStep.arg])

(***************************************************************************)
(* SpecFraming: the read loop of one stream (lines 806-847) over a         *)
(* response body that reader.read() hands over in pieces of any length.    *)
(* fr.calls is the sequence of handler calls made so far.                  *)
(***************************************************************************)
MaxRecords == 3

\* What a producer may put on the wire: complete records (a token, a token
\* with a multi-byte character, an end, a payload that does not parse), a
\* record that is not terminated, a stray line feed.
Pieces ==
  { <<"d", "t", "N", "N">>,
    <<"d", "k1", "k2", "N", "N">>,
    <<"d", "e", "N", "N">>,
    <<"d", "x", "N", "N">>,
    <<"d", "b">>,
    <<"N">> }

RECURSIVE BodiesOf(_)
BodiesOf(n) ==
  IF n = 0
  THEN {<<>>}
  ELSE LET shorter == BodiesOf(n - 1)
       IN  shorter \cup {b \o p : b \in shorter, p \in Pieces}

Bodies == BodiesOf(MaxRecords)

FrInit ==
  /\ fr \in {[NoFraming EXCEPT !.body = b, !.rest = b] : b \in Bodies}
  /\ messages = <<>>
  /\ lastStep = [op |-> "init", arg |-> <<>>, before |-> <<>>]
  /\ prevStep = "init"
  /\ SessionIdle

\* reader.read() resolves with the next n bytes of the body; the loop
\* decodes them, cuts complete lines off the buffer and dispatches them,
\* and leaves the loop when `ended` was set (line 846).
FrRead ==
  /\ ~fr.done
  /\ fr.rest # <<>>
  /\ \E n \in 1..Len(fr.rest) :
       LET r == readChunk(fr.acc, fr.pending, SubSeq(fr.rest, 1, n))
       IN  fr' = [fr EXCEPT !.rest    = SubSeq(fr.rest, n + 1, Len(fr.rest)),
                            !.acc     = r.acc,
                            !.pending = r.pending,
                            !.calls   = @ \o r.calls,
                            !.ended   = r.ended,
                            !.done    = r.ended]
  /\ UNCHANGED <<messages, sessionVars, lastStep, prevStep>>

\* reader.read() resolves with done (line 808).
FrEOF ==
  /\ ~fr.done
  /\ fr.rest = <<>>
  /\ fr' = [fr EXCEPT !.done = TRUE]
  /\ UNCHANGED <<messages, sessionVars, lastStep, prevStep>>

FrNext == FrRead \/ FrEOF

SpecFraming == FrInit /\ [][FrNext]_vars

\* The handler calls when the whole body arrives in one read.
SingleReadCalls(body) == readChunk(<<>>, <<>>, body).calls

IsTerminal(call) == call \in {"e", "r"}

\* C9: however the response bytes are split into reads, the client delivers
\* the events it delivers when they arrive in one read, in record order.
C9_SplitIndependent ==
  fr.done => fr.calls = SingleReadCalls(fr.body)

\* The same, for the bodies in which no record that parses follows the end
\* (or error) record; this part of C9 holds.
FramingEquivalentWhenEndIsLast ==
  LET whole == SingleReadCalls(fr.body)
  IN  (fr.done /\ \A i \in 1..(Len(whole) - 1) : ~IsTerminal(whole[i]))
        => fr.calls = whole

\* C38: after the end event (or a server-sent error event) of a stream has
\* been processed, no further event of that stream is delivered to a
\* handler, records that arrive in the same read as the end record
\* included.
C38_NothingAfterEnd ==
  \A i \in 1..Len(fr.calls) : IsTerminal(fr.calls[i]) => i = Len(fr.calls)

\* No read is made after the read in which the end or error event was
\* processed, so nothing of a later read is delivered; this part of C38
\* holds.
NoReadAfterEnd ==
  [][ (\E i \in 1..Len(fr.calls) : IsTerminal(fr.calls[i])) => fr'.calls = fr.calls ]_vars

(***************************************************************************)
(* Spec: the hook.  A step is one run of a handler or of the continuation  *)
(* of an await; JavaScript runs each to its next await without             *)
(* interleaving.  setMessages and setLoading updaters are applied in the   *)
(* order they are queued, so a step applies them at once.                  *)
(*                                                                         *)
(* streams[n] is the n-th call of streamQuery: pc is "new" before the      *)
(* call, "fetch" while it awaits fetch (line 786), "read" while it awaits  *)
(* reader.read() (line 807) and "done" when its finally block has run;     *)
(* aborted is controller.signal's state while the call runs; acc and       *)
(* pending are accumulatedChunks and the decoder's kept byte.              *)
(*                                                                         *)
(* lastStep.op is "switch" after the sessionId effect, "stream" after a    *)
(* step of stream lastStep.stream, and "other" otherwise.  For a stream    *)
(* step, aborted tells whether the stream's signal was aborted when the    *)
(* step ran, and folds, errors and finishes count the reconciler, onError  *)
(* and onFinish calls the step made; notified tells whether the step       *)
(* called notify.                                                          *)
(***************************************************************************)
MaxSessionMsgs == 3

\* The chunks reader.read() hands over in Spec: a token record, an end
\* record, an error record.
ReadChunks ==
  { <<"d", "t", "N", "N">>,
    <<"d", "e", "N", "N">>,
    <<"d", "r", "N", "N">> }

SessionInBounds(msgs) ==
  /\ Len(msgs) <= MaxSessionMsgs
  /\ \A i \in 1..Len(msgs) : Len(msgs[i].content) <= MaxContent

Step(op, stream, folds, errors, finishes, notified) ==
  [op |-> op, stream |-> stream,
   aborted |-> stream # 0 /\ streams[stream].aborted,
   folds |-> folds, errors |-> errors,
   finishes |-> finishes, notified |-> notified]

\* The handler one payload is dispatched to (lines 826-840), applied to the
\* message list; end and error do not touch the list.
dispatch(msgs, call) ==
  CASE call = "t" -> updateAssistant(msgs, [chunk |-> <<"a">>, new_message |-> FALSE])
    [] call = "n" -> updateAssistant(msgs, [chunk |-> <<"b">>, new_message |-> TRUE])
    [] call = "K" -> updateAssistant(msgs, [chunk |-> <<"K">>, new_message |-> FALSE])
    [] call = "s" -> attachSources(msgs, <<"hr.pdf">>)
    [] call = "b" -> addOrUpdateToolCall(msgs, "rag")
    [] call = "w" -> addOrUpdateToolCall(msgs, "web_search")
    [] call = "c" -> completeToolCall(msgs, "rag")
    [] OTHER -> msgs

RECURSIVE dispatchAll(_, _)
dispatchAll(msgs, calls) ==
  IF calls = <<>> THEN msgs ELSE dispatchAll(dispatch(msgs, Head(calls)), Tail(calls))

Count(calls, which) == Cardinality({i \in 1..Len(calls) : calls[i] \in which})

\* abortControllerRef.current?.abort()
abort(strs, ref) == IF ref = 0 THEN strs ELSE [strs EXCEPT ![ref].aborted = TRUE]

\* A body that keeps delivering after abort, as when fetch is not given the
\* signal (mutant of canDeliver).
canDeliver_NoSignal(s) == TRUE

\* A response body delivers bytes only while its signal is not aborted
\* (fetch is given controller.signal, line 793).
canDeliver(s) == ~streams[s].aborted

\* The catch and finally blocks (lines 848-862): the onError and onFinish
\* calls they make.  thrown is "abort" for an AbortError, "error" for any
\* other exception and "none" when the loop was left without one.
catchFinally_AbortIsError(thrown, ended) ==
  [errors   |-> IF thrown \in {"error", "abort"} THEN 1 ELSE 0,
   finishes |-> IF ended THEN 0 ELSE 1]

\* A finally block that only drops the controller reference.
catchFinally_NoFinish(thrown, ended) ==
  [errors   |-> IF thrown = "error" THEN 1 ELSE 0,
   finishes |-> 0]

catchFinally(thrown, ended) ==
  [errors   |-> IF thrown = "error" THEN 1 ELSE 0,
   finishes |-> IF ended THEN 0 ELSE 1]

\* Once finally has run nothing refers to the call's locals or to its
\* controller any more (line 861 drops the reference).
Finished(str) == [NewStream EXCEPT !.pc = "done"]

\* A stream leaves streamQuery through catch and finally.  The step is
\* recorded as "eof" when the read loop was left at done (line 808).
Leave(s, thrown) ==
  LET cf == catchFinally(thrown, FALSE)
  IN  /\ streams' = [streams EXCEPT ![s] = Finished(@)]
      /\ loading' = IF cf.finishes > 0 THEN FALSE ELSE loading
      /\ abortControllerRef' = 0
      /\ lastStep' = Step(IF thrown = "none" THEN "eof" ELSE "stream",
                          s, 0, cf.errors, cf.finishes, cf.errors > 0)
      /\ UNCHANGED <<messages, attachments, sessionId, histPending, requests,
                     poller, env, fr, prevStep, panel, heap>>

Init ==
  /\ messages = <<>>
  /\ SessionIdle
  /\ fr = NoFraming
  /\ lastStep = Step("other", 0, 0, 0, 0, FALSE)
  /\ prevStep = "init"

\* The sessionId effect (lines 399-449), with the cleanup of the previous
\* run (lines 446-448) before it.  The model selects a conversation only
\* when no history load of that same conversation is still in flight.
SelectConversation(c) ==
  /\ c # sessionId
  /\ sessionId' = c
  /\ messages' = <<>>
  /\ attachments' = <<>>
  /\ streams' = abort(streams, abortControllerRef)
  /\ IF c = 0
     THEN /\ loading' = FALSE
          /\ UNCHANGED histPending
     ELSE /\ c \notin histPending
          /\ loading' = TRUE
          /\ histPending' = histPending \cup {c}
  /\ lastStep' = Step("switch", 0, 0, 0, 0, FALSE)
  /\ UNCHANGED <<abortControllerRef, requests, poller, env, fr, prevStep, panel, heap>>

\* fetchHistory resolves (lines 427-433, 438).
HistoryLoaded(c) ==
  /\ c \in histPending
  /\ \E h \in HistoryLists : messages' = h
  /\ loading' = FALSE
  /\ histPending' = histPending \ {c}
  /\ lastStep' = Step("other", 0, 0, 0, 0, FALSE)
  /\ UNCHANGED <<attachments, abortControllerRef, sessionId, streams, requests,
                 poller, env, fr, prevStep, panel, heap>>

\* fetchHistory rejects (lines 434-438).
HistoryFailed(c) ==
  /\ c \in histPending
  /\ messages' = <<>>
  /\ loading' = FALSE
  /\ histPending' = histPending \ {c}
  /\ lastStep' = Step("other", 0, 0, 0, 0, TRUE)
  /\ UNCHANGED <<attachments, abortControllerRef, sessionId, streams, requests,
                 poller, env, fr, prevStep, panel, heap>>

FreeStreams == {s \in StreamIds : streams[s].pc = "new"}

\* sendMessage (lines 587-626) with the start of streamQuery up to its
\* first await (lines 775-786).
SendMessage(q) ==
  IF trim(q) = <<>>
  THEN UNCHANGED vars
  ELSE IF sessionId = 0
  THEN /\ lastStep' = Step("other", 0, 0, 0, 0, TRUE)
       /\ UNCHANGED <<messages, sessionVars, fr, prevStep>>
  ELSE /\ FreeStreams # {}
       /\ SessionInBounds(Append(messages, outgoing(q)))
       /\ LET n == CHOOSE s \in FreeStreams : \A o \in FreeStreams : s <= o
          IN  /\ messages' = Append(messages, outgoing(q))
              /\ streams' = [abort(streams, abortControllerRef) EXCEPT ![n].pc = "fetch"]
              /\ abortControllerRef' = n
              /\ loading' = TRUE
              /\ lastStep' = Step("other", 0, 0, 0, 0, FALSE)
       /\ UNCHANGED <<attachments, sessionId, histPending, requests, poller, env,
                      fr, prevStep, panel, heap>>

\* fetch resolves with an ok response that has a body (lines 786-804).
FetchResponse(s) ==
  /\ streams[s].pc = "fetch"
  /\ canDeliver(s)
  /\ streams' = [streams EXCEPT ![s].pc = "read"]
  /\ lastStep' = Step("stream", s, 0, 0, 0, FALSE)
  /\ UNCHANGED <<messages, loading, attachments, abortControllerRef, sessionId,
                 histPending, requests, poller, env, fr, prevStep, panel, heap>>

\* fetch rejects with a network error, or the response is not ok or has no
\* body (lines 796-802): an Error reaches the catch block.
FetchFailed(s) ==
  /\ streams[s].pc = "fetch"
  /\ canDeliver(s)
  /\ Leave(s, "error")

\* reader.read() resolves with a chunk (lines 807-846).
Read(s) ==
  /\ streams[s].pc = "read"
  /\ canDeliver(s)
  /\ \E value \in ReadChunks :
       LET r  == readChunk(streams[s].acc, streams[s].pending, value)
           cf == catchFinally("none", TRUE)
           finishes == Count(r.calls, {"e"})
           errors   == Count(r.calls, {"r"})
           folded   == dispatchAll(messages, r.calls)
       IN  /\ SessionInBounds(folded)
           /\ messages' = folded
           /\ loading' = IF finishes + (IF r.ended THEN cf.finishes ELSE 0) > 0
                         THEN FALSE ELSE loading
           /\ streams' = [streams EXCEPT ![s] =
                            IF r.ended THEN Finished(@)
                            ELSE [@ EXCEPT !.acc = r.acc, !.pending = r.pending]]
           /\ abortControllerRef' = IF r.ended THEN 0 ELSE abortControllerRef
           /\ lastStep' = Step("stream", s, Len(r.calls) - finishes - errors,
                               errors + (IF r.ended THEN cf.errors ELSE 0),
                               finishes + (IF r.ended THEN cf.finishes ELSE 0),
                               errors > 0)
  /\ UNCHANGED <<attachments, sessionId, histPending, requests, poller, env, fr, prevStep, panel, heap>>

\* reader.read() resolves with done (line 808), then finally.
ReadEOF(s) ==
  /\ streams[s].pc = "read"
  /\ canDeliver(s)
  /\ Leave(s, "none")

\* reader.read() rejects with a transport error.
ReadFailed(s) ==
  /\ streams[s].pc = "read"
  /\ canDeliver(s)
  /\ Leave(s, "error")

\* The pending fetch or read of an aborted stream rejects with AbortError.
Aborted(s) ==
  /\ streams[s].pc \in {"fetch", "read"}
  /\ streams[s].aborted
  /\ Leave(s, "abort")

Next ==
  \/ \E c \in SessionIds \cup {0} : SelectConversation(c)
  \/ \E c \in SessionIds : HistoryLoaded(c)
  \/ \E c \in SessionIds : HistoryFailed(c)
  \/ \E q \in Queries : SendMessage(q)
  \/ \E s \in StreamIds : FetchResponse(s)
  \/ \E s \in StreamIds : FetchFailed(s)
  \/ \E s \in StreamIds : Read(s)
  \/ \E s \in StreamIds : ReadEOF(s)
  \/ \E s \in StreamIds : ReadFailed(s)
  \/ \E s \in StreamIds : Aborted(s)

Spec == Init /\ [][Next]_vars

(***************************************************************************)
(* Claims about the hook (Spec).                                           *)
(***************************************************************************)
\* A streaming connection is open: its call has not returned and its signal
\* is not aborted, so it can still deliver events.
Open(s) == streams[s].pc \in {"fetch", "read"} /\ ~streams[s].aborted

OpenStreams == {s \in StreamIds : Open(s)}

\* C1: at any time at most one streaming connection is open, also when three
\* or more streams are opened in succession.
C1_SingleActiveStream == Cardinality(OpenStreams) <= 1

\* C2: once a stream's signal is aborted, no token, tool_start, tool_end or
\* sources event of that stream is folded into the message list.
C2_NoFoldAfterAbort ==
  (lastStep.op = "stream" /\ lastStep.aborted) => lastStep.folds = 0

\* An aborted stream is still waiting in its read loop while an event of
\* another stream is folded into the list.
C2_Witness ==
  /\ lastStep.op = "stream"
  /\ lastStep.folds > 0
  /\ \E s \in StreamIds :
       /\ s # lastStep.stream
       /\ streams[s].pc = "read"
       /\ streams[s].aborted

\* C3: on a switch the outgoing stream is cancelled, messages and
\* attachments are cleared and the history load is started; loading stays
\* true (no input is accepted) until that history load has settled.
C3_SwitchOrder ==
  /\ lastStep.op = "switch" =>
       /\ OpenStreams = {}
       /\ messages = <<>>
       /\ attachments = <<>>
       /\ sessionId # 0 => sessionId \in histPending
  /\ (sessionId # 0 /\ sessionId \in histPending) => loading

\* C10: a cancelled stream never calls the error callback and raises no
\* notification; the only signal it gives is one finish.
C10_CancelIsNotError ==
  (lastStep.op = "stream" /\ lastStep.aborted) =>
    /\ lastStep.errors = 0
    /\ ~lastStep.notified
    /\ lastStep.finishes = 1

\* A stream that a newer stream superseded has left through its catch block
\* while the newer one is open.
C10_Witness ==
  /\ lastStep.op = "stream"
  /\ lastStep.aborted
  /\ lastStep.finishes = 1
  /\ streams[lastStep.stream].pc = "done"
  /\ OpenStreams # {}

\* C11: when the response body reaches EOF and no end event was received,
\* the stream client still signals finish (once, without an error), so the
\* loading flag is false afterwards.
C11_EofSignalsFinish ==
  lastStep.op = "eof" =>
    /\ lastStep.finishes = 1
    /\ lastStep.errors = 0
    /\ ~lastStep.notified
    /\ loading = FALSE

\* A body that ended after a token but before any end event.
C11_Witness ==
  /\ lastStep.op = "eof"
  /\ streams[lastStep.stream].pc = "done"
  /\ messages # <<>>
  /\ LastOf(messages).role = "assistant"
  /\ ~loading

\* What C21 says of one step: a step that opens a stream aborts the signal
\* of every stream that was open, a cancelled stream leaves through its
\* catch block once, and when an event of a stream is processed no stream
\* that was opened before it is still open.
CancelOnSupersede ==
  /\ \A n \in StreamIds :
       (streams[n].pc = "new" /\ streams'[n].pc = "fetch")
         => \A s \in OpenStreams : streams'[s].aborted
  /\ (lastStep'.op = "stream" /\ lastStep'.aborted) =>
       /\ streams[lastStep'.stream].pc # "done"
       /\ streams'[lastStep'.stream].pc = "done"
  /\ (lastStep'.op = "stream" /\ lastStep'.folds > 0) =>
       \A s \in StreamIds :
         s < lastStep'.stream =>
           ~(streams'[s].pc \in {"fetch", "read"} /\ ~streams'[s].aborted)

\* C21: opening a second stream while a first one is active makes the first
\* stream observe exactly one cancellation, before any event of the second
\* stream is processed.
C21_CancelBeforeSecondStream == [][CancelOnSupersede]_vars

\* The same, for the steps taken while the controller reference holds the
\* controller of every open stream; this part of C21 holds.
CancelBeforeSecondWhenRefKept ==
  [][ (\A s \in OpenStreams : abortControllerRef = s) => CancelOnSupersede ]_vars

\* Stream s leaves streamQuery in this step: its finally block runs.
Terminates(s) == streams[s].pc # "done" /\ streams'[s].pc = "done"

\* C35: every stream signals finish exactly once, whichever way it
\* terminates: end event, server-sent error event, transport error, EOF
\* without end, or cancellation.
C35_FinishExactlyOnce ==
  [][ \A s \in StreamIds : Terminates(s) => lastStep'.finishes = 1 ]_vars

\* No stream signals finish twice, and the only termination without a
\* finish is the one that reported a server-sent error event; this part of
\* C35 holds.
FinishUnlessErrorEvent ==
  [][ \A s \in StreamIds :
        Terminates(s) =>
          \/ lastStep'.finishes = 1
          \/ /\ lastStep'.finishes = 0
             /\ lastStep'.errors = 1
             /\ lastStep'.notified
             /\ streams[s].pc = "read"
             /\ ~lastStep'.aborted
             /\ loading' = loading ]_vars

\* C36: while the most recently opened stream has not finished, loading is
\* true and the controller reference is that stream's: the termination of
\* an older stream neither sets loading to false nor clears the reference.
C36_LatestStreamKeepsHandle ==
  [][ \A s, n \in StreamIds :
        (s < n /\ Terminates(s) /\ Open(n)) =>
          /\ loading => loading'
          /\ abortControllerRef = n => abortControllerRef' = n ]_vars

\* The step that opens a stream leaves loading true and the reference on
\* that stream; this part of C36 holds.
SendInstallsHandle ==
  [][ \A n \in StreamIds :
        (streams[n].pc = "new" /\ streams'[n].pc = "fetch") =>
          (loading' /\ abortControllerRef' = n) ]_vars

\* C37: a history response (or history error) for a conversation that is
\* not the active one any more does not replace the message list and does
\* not change the loading flag.
C37_StaleHistoryIgnored ==
  [][ \A c \in SessionIds :
        (c \in histPending /\ c \notin histPending' /\ sessionId \in SessionIds \ {c}) =>
          (messages' = messages /\ loading' = loading) ]_vars

\* The history response for the active conversation sets the list and ends
\* loading; this part holds.
ActiveHistoryApplied ==
  [][ \A c \in SessionIds :
        (c \in histPending /\ c \notin histPending' /\ c = sessionId) =>
          (messages' \in HistoryLists /\ ~loading') ]_vars

(***************************************************************************)
(* SpecEndToEnd: one query on a loaded conversation, answered by a body of *)
(* token records, a sources record and an end record that reader.read()    *)
(* hands over in pieces of any length.  fr.rest holds the bytes not yet     *)
(* read; lastStep remembers the list before the query, the query and the    *)
(* text the server sends.                                                   *)
(***************************************************************************)
\* The texts of an answer: one token record per character.
RECURSIVE AnswersOf(_)
AnswersOf(n) ==
  IF n = 0
  THEN {<<>>}
  ELSE LET shorter == AnswersOf(n - 1)
       IN  shorter \cup {c \o <<ch>> : c \in shorter, ch \in {"a", "K"}}

Answers == AnswersOf(MaxContent) \ {<<>>}

\* The token records (new_message = false) that carry a text.
RECURSIVE TokenRecords(_)
TokenRecords(content) ==
  IF content = <<>>
  THEN <<>>
  ELSE (IF Head(content) = "a" THEN <<"d", "t", "N", "N">>
                               ELSE <<"d", "k1", "k2", "N", "N">>)
       \o TokenRecords(Tail(content))

AnswerBody(content) ==
  TokenRecords(content) \o <<"d", "s", "N", "N">> \o <<"d", "e", "N", "N">>

E2eInit ==
  /\ messages \in HistoryLists
  /\ loading = FALSE
  /\ attachments = <<>>
  /\ abortControllerRef = 0
  /\ sessionId = 1
  /\ streams = [s \in StreamIds |-> NewStream]
  /\ histPending = {}
  /\ requests = {}
  /\ poller = PollerIdle
  /\ panel = PanelIdle
  /\ heap = HeapIdle
  /\ env = EnvIdle
  /\ fr = NoFraming
  /\ lastStep = [op |-> "loaded", before |-> messages, query |-> <<>>, content |-> <<>>]
  /\ prevStep = "init"

\* sendMessage (lines 587-626) up to the fetch call of streamQuery (line
\* 786); the server answers with the records of `content`.
E2eSend ==
  /\ lastStep.op = "loaded"
  /\ \E q \in Queries, content \in Answers :
       /\ trim(q) # <<>>
       /\ messages' = Append(messages, outgoing(q))
       /\ streams' = [abort(streams, abortControllerRef) EXCEPT ![1].pc = "fetch"]
       /\ abortControllerRef' = 1
       /\ loading' = TRUE
       /\ fr' = [NoFraming EXCEPT !.body = AnswerBody(content),
                                  !.rest = AnswerBody(content)]
       /\ lastStep' = [op |-> "send", before |-> messages, query |-> q,
                       content |-> content]
  /\ UNCHANGED <<attachments, sessionId, histPending, requests, poller, env, prevStep, panel, heap>>

\* fetch resolves with an ok response that has a body (lines 786-804).
E2eFetch ==
  /\ streams[1].pc = "fetch"
  /\ streams' = [streams EXCEPT ![1].pc = "read"]
  /\ lastStep' = [lastStep EXCEPT !.op = "fetch"]
  /\ UNCHANGED <<messages, loading, attachments, abortControllerRef, sessionId,
                 histPending, requests, poller, env, fr, prevStep, panel, heap>>

\* reader.read() resolves with the next n bytes (lines 807-846, and the
\* finally block when the loop is left).
E2eRead ==
  /\ streams[1].pc = "read"
  /\ fr.rest # <<>>
  /\ \E n \in 1..Len(fr.rest) :
       LET r  == readChunk(streams[1].acc, streams[1].pending, SubSeq(fr.rest, 1, n))
           cf == catchFinally("none", TRUE)
           finishes == Count(r.calls, {"e"}) + (IF r.ended THEN cf.finishes ELSE 0)
       IN  /\ messages' = dispatchAll(messages, r.calls)
           /\ loading' = IF finishes > 0 THEN FALSE ELSE loading
           /\ streams' = [streams EXCEPT ![1] =
                            IF r.ended THEN Finished(@)
                            ELSE [@ EXCEPT !.acc = r.acc, !.pending = r.pending]]
           /\ abortControllerRef' = IF r.ended THEN 0 ELSE abortControllerRef
           /\ fr' = [fr EXCEPT !.rest = SubSeq(fr.rest, n + 1, Len(fr.rest))]
           /\ lastStep' = [lastStep EXCEPT !.op = IF r.ended THEN "end" ELSE "read"]
  /\ UNCHANGED <<attachments, sessionId, histPending, requests, poller, env, prevStep, panel, heap>>

E2eNext == E2eSend \/ E2eFetch \/ E2eRead

SpecEndToEnd == E2eInit /\ [][E2eNext]_vars

\* C12: from a loaded conversation with list M, sendMessage(q), token
\* events c1..cn (new_message = false), a sources event S and end leave the
\* list M + [user message q, one assistant message with content c1+...+cn
\* and sources S], and loading false.
C12_EndToEnd ==
  lastStep.op = "end" =>
    /\ messages = lastStep.before \o
         << outgoing(lastStep.query),
            [NewMessage("assistant", "assistant", lastStep.content, Absent)
               EXCEPT !.sources = Present(<<"hr.pdf">>)] >>
    /\ loading = FALSE

\* The answer of several tokens to a query on a conversation with history.
C12_Witness ==
  /\ lastStep.op = "end"
  /\ lastStep.before # <<>>
  /\ Len(lastStep.content) >= 2
  /\ Len(messages) = Len(lastStep.before) + 2
  /\ fr.rest = <<>>

(***************************************************************************)
(* SpecFaults: one query whose response body holds token records and       *)
(* records whose payload does not parse, closed by an end record; the      *)
(* connection may fail before the response or between any two reads.       *)
(* lastStep remembers the query, the payloads of the body, whether a read  *)
(* has delivered bytes, and how often onError and onFinish were called.    *)
(***************************************************************************)
MaxFaultRecords == 2

\* A token, a token with new_message, a payload that JSON.parse rejects.
FaultPayloads == {"t", "n", "x"}

RECURSIVE RecordSeqsOf(_)
RecordSeqsOf(n) ==
  IF n = 0
  THEN {<<>>}
  ELSE LET shorter == RecordSeqsOf(n - 1)
       IN  shorter \cup {r \o <<p>> : r \in shorter, p \in FaultPayloads}

RecordSeqs == RecordSeqsOf(MaxFaultRecords)

\* The bytes of the records, then the end record.
RECURSIVE FaultBody(_)
FaultBody(records) ==
  IF records = <<>>
  THEN <<"d", "e", "N", "N">>
  ELSE <<"d", Head(records), "N", "N">> \o FaultBody(Tail(records))

FtStep(op, hadData, errors, finishes) ==
  [lastStep EXCEPT !.op = op, !.hadData = hadData,
                   !.errors = @ + errors, !.finishes = @ + finishes]

FtInit ==
  /\ messages = <<>>
  /\ loading = FALSE
  /\ attachments = <<>>
  /\ abortControllerRef = 0
  /\ sessionId = 1
  /\ streams = [s \in StreamIds |-> NewStream]
  /\ histPending = {}
  /\ requests = {}
  /\ poller = PollerIdle
  /\ panel = PanelIdle
  /\ heap = HeapIdle
  /\ env = EnvIdle
  /\ fr = NoFraming
  /\ lastStep = [op |-> "idle", query |-> <<>>, records |-> <<>>,
                 hadData |-> FALSE, errors |-> 0, finishes |-> 0]
  /\ prevStep = "init"

\* sendMessage (lines 587-626) up to the fetch call of streamQuery (line
\* 786); the server answers with the records chosen here.
FtSend ==
  /\ lastStep.op = "idle"
  /\ \E q \in Queries, records \in RecordSeqs :
       /\ trim(q) # <<>>
       /\ messages' = Append(messages, outgoing(q))
       /\ streams' = [abort(streams, abortControllerRef) EXCEPT ![1].pc = "fetch"]
       /\ abortControllerRef' = 1
       /\ loading' = TRUE
       /\ fr' = [NoFraming EXCEPT !.body = FaultBody(records),
                                  !.rest = FaultBody(records)]
       /\ lastStep' = [lastStep EXCEPT !.op = "send", !.query = q,
                                       !.records = records]
  /\ UNCHANGED <<attachments, sessionId, histPending, requests, poller, env, prevStep, panel, heap>>

\* fetch resolves with an ok response that has a body (lines 786-804).
FtFetch ==
  /\ streams[1].pc = "fetch"
  /\ streams' = [streams EXCEPT ![1].pc = "read"]
  /\ lastStep' = FtStep("fetch", FALSE, 0, 0)
  /\ UNCHANGED <<messages, loading, attachments, abortControllerRef, sessionId,
                 histPending, requests, poller, env, fr, prevStep, panel, heap>>

\* An exception that is not an AbortError reaches the catch block (lines
\* 848-862).
FtLeave(hadData) ==
  LET cf == catchFinally("error", FALSE)
  IN  /\ streams' = [streams EXCEPT ![1] = Finished(@)]
      /\ loading' = IF cf.finishes > 0 THEN FALSE ELSE loading
      /\ abortControllerRef' = 0
      /\ lastStep' = FtStep("failed", hadData, cf.errors, cf.finishes)
      /\ UNCHANGED <<messages, attachments, sessionId, histPending, requests,
                     poller, env, fr, prevStep, panel, heap>>

\* fetch rejects: the connection could not be made (line 786).
FtFetchFailed ==
  /\ streams[1].pc = "fetch"
  /\ FtLeave(FALSE)

\* reader.read() resolves with the next n bytes (lines 807-846, and the
\* finally block when the loop is left).
FtRead ==
  /\ streams[1].pc = "read"
  /\ fr.rest # <<>>
  /\ \E n \in 1..Len(fr.rest) :
       LET r  == readChunk(streams[1].acc, streams[1].pending, SubSeq(fr.rest, 1, n))
           cf == catchFinally("none", TRUE)
           finishes == Count(r.calls, {"e"}) + (IF r.ended THEN cf.finishes ELSE 0)
           errors   == Count(r.calls, {"r"}) + (IF r.ended THEN cf.errors ELSE 0)
       IN  /\ messages' = dispatchAll(messages, r.calls)
           /\ loading' = IF finishes > 0 THEN FALSE ELSE loading
           /\ streams' = [streams EXCEPT ![1] =
                            IF r.ended THEN Finished(@)
                            ELSE [@ EXCEPT !.acc = r.acc, !.pending = r.pending]]
           /\ abortControllerRef' = IF r.ended THEN 0 ELSE abortControllerRef
           /\ fr' = [fr EXCEPT !.rest = SubSeq(fr.rest, n + 1, Len(fr.rest))]
           /\ lastStep' = FtStep(IF r.ended THEN "end" ELSE "read", TRUE, errors, finishes)
  /\ UNCHANGED <<attachments, sessionId, histPending, requests, poller, env, prevStep, panel, heap>>

\* reader.read() rejects: the connection dropped (line 807).
FtReadFailed ==
  /\ streams[1].pc = "read"
  /\ FtLeave(lastStep.hadData)

FtNext == FtSend \/ FtFetch \/ FtFetchFailed \/ FtRead \/ FtReadFailed

SpecFaults == FtInit /\ [][FtNext]_vars

\* C22: a transport or connection error is surfaced through the error
\* callback only if no data had arrived on the stream; a connection that
\* drops after data had arrived surfaces no error.
C22_ErrorOnlyBeforeData ==
  (lastStep.op = "failed" /\ lastStep.hadData) => lastStep.errors = 0

\* A connection that fails ends the stream with one finish, and with one
\* error when no data had arrived; this part of C22 holds.
ConnectionFailureBeforeData ==
  lastStep.op = "failed" =>
    /\ lastStep.finishes = 1
    /\ ~loading
    /\ ~lastStep.hadData => lastStep.errors = 1

GoodRecords(records) == SelectSeq(records, LAMBDA p : p # "x")

\* C23: a record whose payload does not parse is skipped and the stream
\* goes on: at the end record the list is the one the other records give,
\* folded in order, the error callback was not called, and finish was
\* called once.
C23_BadRecordSkipped ==
  lastStep.op = "end" =>
    /\ messages = dispatchAll(<<outgoing(lastStep.query)>>, GoodRecords(lastStep.records))
    /\ lastStep.errors = 0
    /\ lastStep.finishes = 1
    /\ ~loading

\* A body whose first record does not parse and whose second is a token
\* was read to its end record.
C23_Witness ==
  /\ lastStep.op = "end"
  /\ Len(lastStep.records) >= 2
  /\ lastStep.records[1] = "x"
  /\ lastStep.records[2] \in {"t", "n"}
  /\ Len(messages) = 2
  /\ LastOf(messages).role = "assistant"
  /\ fr.rest = <<>>

(***************************************************************************)
(* SpecAttachments: the attachment handlers of useChatSession (lines       *)
(* 453-581) and the useTaskPolling instance they share.                    *)
(*                                                                         *)
(* An attachment is [attachment_id, filename, status, task_id,             *)
(* pending_review_metadata]; filename is the number of the submitted file. *)
(* A task id is Temp(t), the placeholder `temp-id-${Date.now()}` built at  *)
(* clock value t, or Task(j), the id the server gave job j.                *)
(*                                                                         *)
(* React runs an effect and its cleanup after the render that follows a    *)
(* state update, not inside the callback that made the update: PollerEffect *)
(* is a step of its own, and until it runs the previous effect's interval,  *)
(* timeout and `cancelled = false` stay as they were.                      *)
(***************************************************************************)
MaxInFlight == 2

Temp(t) == <<"temp", t>>

Task(j) == <<"task", j>>

Metadata == {"m1"}

\* tempAttachment (lines 502-507).
tempAttachment(file, tempTaskId) ==
  [attachment_id |-> 0, filename |-> file, status |-> "indexing",
   task_id |-> tempTaskId, pending_review_metadata |-> Absent]


\* The updater of lines 524-534: the entries that carry the placeholder id
\* get the server's task_id and attachment_id.
rekey(atts, tempTaskId, taskId, attachmentId) ==
  LET one(att) == IF att.task_id = tempTaskId
                  THEN [att EXCEPT !.task_id = taskId, !.attachment_id = attachmentId]
                  ELSE att
  IN  [i \in 1..Len(atts) |-> one(atts[i])]

\* The updater of lines 542-544: the entries that carry the placeholder id
\* are removed.
rollback(atts, tempTaskId) ==
  SelectSeq(atts, LAMBDA att : att.task_id # tempTaskId)

\* An updater that marks every attachment.
setStatus_All(atts, taskId, status) ==
  LET one(att) == [att EXCEPT !.status = status]
  IN  [i \in 1..Len(atts) |-> one(atts[i])]

\* The updater of the poller callbacks (lines 459-463, 467-471, 475-479).
setStatus(atts, taskId, status) ==
  LET one(att) == IF att.task_id = taskId
                  THEN [att EXCEPT !.status = status]
                  ELSE att
  IN  [i \in 1..Len(atts) |-> one(atts[i])]

\* An updater that does not record the metadata.
markPendingReview_NoMetadata(atts, attachmentId, metadata) ==
  LET one(att) == IF att.attachment_id = attachmentId
                  THEN [att EXCEPT !.status = "pending_review"]
                  ELSE att
  IN  [i \in 1..Len(atts) |-> one(atts[i])]

\* The updater of lines 569-575.
markPendingReview(atts, attachmentId, metadata) ==
  LET one(att) == IF att.attachment_id = attachmentId
                  THEN [att EXCEPT !.status = "pending_review",
                                   !.pending_review_metadata = Present(metadata)]
                  ELSE att
  IN  [i \in 1..Len(atts) |-> one(atts[i])]

Min(a, b) == IF a <= b THEN a ELSE b

\* startPolling (useTaskPolling.ts:88-90): setTaskId(nextTaskId).
startPolling(p, j) ==
  [p EXCEPT !.taskId = j, !.calls[j].started = TRUE]

\* The effect of useTaskPolling (lines 32-75) after a render: the cleanup of
\* the previous run marks its queries cancelled and clears its timers; the
\* new run returns early when taskId is null, and otherwise issues a status
\* query (line 63) and arms the interval and the timeout.
runEffect(p) ==
  [p EXCEPT !.stale      = Min(MaxInFlight, p.stale + p.inflight),
            !.inflight   = IF p.taskId # 0 THEN 1 ELSE 0,
            !.effectTask = p.taskId,
            !.timeout    = p.taskId # 0]

\* A success, failure or error callback was invoked for job j, followed by
\* setTaskId(null) (lines 49-59).
fired(p, j) ==
  [p EXCEPT !.taskId = 0, !.calls[j].fired = Min(2, @ + 1)]

\* What a step of this specification did (history): the file, job or
\* attachment id it concerns, whether it notified the user, and whether it
\* issued a status query.
AStep(op, job, notified, issued) ==
  [op |-> op, job |-> job, notified |-> notified, issued |-> issued]

AttInit ==
  /\ messages = <<>>
  /\ loading = FALSE
  /\ attachments = <<>>
  /\ abortControllerRef = 0
  /\ sessionId \in {0, 1}
  /\ streams = [s \in StreamIds |-> NewStream]
  /\ histPending = {}
  /\ requests = {}
  /\ poller = PollerIdle
  /\ panel = PanelIdle
  /\ heap = HeapIdle
  /\ env \in {[EnvIdle EXCEPT !.outcome = o] : o \in [FileIds -> {"SUCCESS", "FAILURE"}]}
  /\ fr = NoFraming
  /\ lastStep = AStep("init", 0, FALSE, FALSE)
  /\ prevStep = "init"

attVars == <<messages, loading, abortControllerRef, sessionId, streams,
             histPending, fr, prevStep, panel, heap>>

\* handleAttachFile up to the await (lines 489-520).  Date.now() returns the
\* clock value of the previous call or a later one.
AttachFile ==
  /\ env.submitted + 1 \in FileIds
  /\ LET file == env.submitted + 1
     IN  IF sessionId = 0
         THEN /\ lastStep' = AStep("attachRefused", 0, TRUE, FALSE)
              /\ env' = [env EXCEPT !.submitted = file]
              /\ UNCHANGED <<attachments, requests, poller>>
         ELSE \E t \in {env.now, env.now + 1} :
                /\ t > 0
                /\ attachments' = Append(attachments, tempAttachment(file, Temp(t)))
                /\ requests' = requests \cup {[kind |-> "upload", file |-> file, temp |-> t]}
                /\ env' = [env EXCEPT !.now = t, !.submitted = file]
                /\ lastStep' = AStep("attach", file, FALSE, FALSE)
                /\ UNCHANGED poller
  /\ UNCHANGED attVars

Uploads == {r \in requests : r.kind = "upload"}

\* The upload succeeds (lines 522-537).
UploadSucceeded(u) ==
  /\ u \in Uploads
  /\ attachments' = rekey(attachments, Temp(u.temp), Task(u.file), u.file)
  /\ poller' = startPolling(poller, u.file)
  /\ requests' = requests \ {u}
  /\ lastStep' = AStep("uploaded", u.file, FALSE, FALSE)
  /\ UNCHANGED <<env, attVars>>

\* The upload fails (lines 538-545).
UploadFailed(u) ==
  /\ u \in Uploads
  /\ attachments' = rollback(attachments, Temp(u.temp))
  /\ requests' = requests \ {u}
  /\ lastStep' = AStep("uploadFailed", u.file, TRUE, FALSE)
  /\ UNCHANGED <<poller, env, attVars>>

\* React commits a render of the hook and runs the poller's effect: after a
\* setTaskId, or after any other render, because the callbacks useChatSession
\* passes (lines 455-480) are new functions on every render and are
\* dependencies of the effect (useTaskPolling.ts:76-86).
PollerEffect ==
  /\ poller.effectTask # 0 \/ poller.taskId # 0
  /\ lastStep' = AStep("effect", poller.taskId, FALSE, poller.taskId # 0)
  /\ poller' = runEffect(poller)
  /\ UNCHANGED <<attachments, requests, env, attVars>>

\* The interval of the live effect fires: checkStatus issues a status query
\* (useTaskPolling.ts:37-45, 64).
PollTick ==
  /\ poller.effectTask # 0
  /\ poller.inflight < MaxInFlight
  /\ lastStep' = AStep("tick", poller.effectTask, FALSE, TRUE)
  /\ poller' = [poller EXCEPT !.inflight = @ + 1]
  /\ UNCHANGED <<attachments, requests, env, attVars>>

\* A status query of the live effect is answered (useTaskPolling.ts:47-60,
\* with the callbacks of useChatSession.ts:456-480): PENDING, the job's
\* outcome, or a request error.
PollResponse ==
  /\ poller.inflight > 0
  /\ LET j    == poller.effectTask
         rest == [poller EXCEPT !.inflight = @ - 1]
     IN  \E status \in {"PENDING", env.outcome[j], "error"} :
           CASE status = "PENDING" ->
                  /\ poller' = rest
                  /\ lastStep' = AStep("pollPending", j, FALSE, FALSE)
                  /\ UNCHANGED attachments
             [] status = "SUCCESS" ->
                  /\ poller' = fired(rest, j)
                  /\ attachments' = setStatus(attachments, Task(j), "temporary")
                  /\ lastStep' = AStep("pollSuccess", j, TRUE, FALSE)
             [] status = "FAILURE" ->
                  /\ poller' = fired(rest, j)
                  /\ attachments' = setStatus(attachments, Task(j), "failed")
                  /\ lastStep' = AStep("pollFailure", j, TRUE, FALSE)
             [] status = "error" ->
                  /\ poller' = [fired(rest, j) EXCEPT !.calls[j].errors = Min(2, @ + 1)]
                  /\ attachments' = setStatus(attachments, Task(j), "failed")
                  /\ lastStep' = AStep("pollError", j, TRUE, FALSE)
  /\ UNCHANGED <<requests, env, attVars>>

\* A status query of an effect that was cleaned up is answered: checkStatus
\* returns at `if (cancelled) return` (useTaskPolling.ts:47, 57).
PollDropped ==
  /\ poller.stale > 0
  /\ poller' = [poller EXCEPT !.stale = @ - 1]
  /\ lastStep' = AStep("pollDropped", 0, FALSE, FALSE)
  /\ UNCHANGED <<attachments, requests, env, attVars>>

\* The timeout of the live effect fires (useTaskPolling.ts:65-69):
\* onTimeout?.(taskId), then setTaskId(null).  useChatSession passes no
\* onTimeout, so nothing else changes.
PollTimeout ==
  /\ poller.effectTask # 0
  /\ poller.timeout
  /\ lastStep' = AStep("timeout", poller.effectTask, FALSE, FALSE)
  /\ poller' = [poller EXCEPT !.timeout = FALSE, !.taskId = 0,
                              !.calls[poller.effectTask].timeouts = Min(2, @ + 1)]
  /\ UNCHANGED <<attachments, requests, env, attVars>>

Promotions == {r \in requests : r.kind = "promote"}

\* The model follows up to two promotion requests in flight per attachment.
PromotionSlots == {1, 2}

\* The promotion requests in flight for one attachment.
PromotionsOf(id) == {r \in Promotions : r.id = id}

\* handleRequestPromotion up to the await (lines 553-566).  The button that
\* leads to it is rendered for attachments whose status is temporary
\* (unnamed/part_009:213-222), in a tree rendered after the last state update;
\* the click and the submit of the dialog it opens (lines 260-268) are one
\* step.  nth tells the requests in flight for one attachment apart.
RequestPromotion ==
  /\ poller.effectTask = poller.taskId
  /\ \E i \in 1..Len(attachments), metadata \in Metadata :
       LET id   == attachments[i].attachment_id
           free == PromotionSlots \ {r.nth : r \in PromotionsOf(id)}
       IN  /\ attachments[i].status = "temporary"
           /\ free # {}
           /\ requests' = requests \cup {[kind |-> "promote", id |-> id,
                                          metadata |-> metadata,
                                          nth |-> CHOOSE n \in free : \A m \in free : n <= m]}
           /\ lastStep' = AStep("promote", id, FALSE, FALSE)
  /\ UNCHANGED <<attachments, poller, env, attVars>>

\* The server accepts the promotion request (lines 567-575).
PromotionAccepted(r) ==
  /\ r \in Promotions
  /\ attachments' = markPendingReview(attachments, r.id, r.metadata)
  /\ requests' = requests \ {r}
  /\ lastStep' = AStep("promoteAccepted", r.id, TRUE, FALSE)
  /\ UNCHANGED <<poller, env, attVars>>

\* The promotion request fails (lines 576-578).
PromotionFailed(r) ==
  /\ r \in Promotions
  /\ requests' = requests \ {r}
  /\ lastStep' = AStep("promoteFailed", r.id, TRUE, FALSE)
  /\ UNCHANGED <<attachments, poller, env, attVars>>

AttNext ==
  \/ AttachFile
  \/ \E u \in requests : UploadSucceeded(u)
  \/ \E u \in requests : UploadFailed(u)
  \/ PollerEffect
  \/ PollTick
  \/ PollResponse
  \/ PollDropped
  \/ PollTimeout
  \/ RequestPromotion
  \/ \E r \in requests : PromotionAccepted(r)
  \/ \E r \in requests : PromotionFailed(r)

SpecAttachments == AttInit /\ [][AttNext]_vars

(***************************************************************************)
(* Claims about the attachment handlers and the poller (SpecAttachments).  *)
(***************************************************************************)
EntriesOf(atts, file) == {i \in 1..Len(atts) : atts[i].filename = file}

\* Every submission so far read a later clock value than the one before it,
\* so no two placeholder ids are equal.
ClockAdvanced == env.now = env.submitted

\* What C13 says of one step.
SubmitAndRekey ==
  /\ lastStep'.op = "attach" =>
       /\ attachments' = Append(attachments, attachments'[Len(attachments')])
       /\ LET new == attachments'[Len(attachments')]
          IN  /\ new.filename = lastStep'.job
              /\ new.status = "indexing"
              /\ new.attachment_id = 0
              /\ EntriesOf(attachments, lastStep'.job) = {}
  /\ \A u \in Uploads' :
       \E i \in 1..Len(attachments') :
         /\ EntriesOf(attachments', u.file) = {i}
         /\ attachments'[i] = tempAttachment(u.file, Temp(u.temp))
  /\ lastStep'.op = "uploaded" =>
       LET file == lastStep'.job
       IN  /\ Len(attachments') = Len(attachments)
           /\ \E i \in 1..Len(attachments) : EntriesOf(attachments, file) = {i}
           /\ \A i \in 1..Len(attachments) :
                attachments'[i] =
                  IF attachments[i].filename = file
                  THEN [attachments[i] EXCEPT !.task_id = Task(file),
                                              !.attachment_id = file]
                  ELSE attachments[i]
           /\ \A i, k \in 1..Len(attachments') :
                (i # k /\ attachments'[i].attachment_id # 0)
                  => /\ attachments'[i].attachment_id # attachments'[k].attachment_id
                     /\ attachments'[i].task_id # attachments'[k].task_id
           /\ poller'.taskId = file
           /\ poller'.calls[file].started

\* C13: submit(file) inserts exactly one attachment with status indexing
\* before the upload completes; when the upload succeeds that same entry
\* gets the server's task_id and attachment_id in place (length and order
\* unchanged, no duplicate entry) and polling of the task id is started.
C13_OptimisticInsertThenRekey == [][SubmitAndRekey]_vars

\* The same, while no two submissions read the same clock value; this part
\* of C13 holds.
RekeyInPlaceWhenClockAdvanced == [][ClockAdvanced' => SubmitAndRekey]_vars

\* What C14 says of one step.
RollbackOnFailure ==
  lastStep'.op = "uploadFailed" =>
    /\ attachments' = SelectSeq(attachments, LAMBDA att : att.filename # lastStep'.job)
    /\ EntriesOf(attachments, lastStep'.job) # {}
    /\ lastStep'.notified

\* C14: when the upload of a submitted file fails, the list afterwards has
\* no entry for that submission, every other attachment is unchanged, and
\* the failure is notified.
C14_RollbackOnUploadFailure == [][RollbackOnFailure]_vars

\* The same, while no two submissions read the same clock value; this part
\* of C14 holds.
RollbackWhenClockAdvanced == [][ClockAdvanced' => RollbackOnFailure]_vars

\* C15: when the poller reports SUCCESS for a job, the attachment whose
\* task_id is that job's id becomes temporary; when it reports FAILURE,
\* that attachment becomes failed and the user is notified.  No other
\* attachment changes.
C15_PollOutcomeApplied ==
  [][ LET job == lastStep'.job
          applied(status) ==
            \A i \in 1..Len(attachments) :
              attachments'[i] =
                IF attachments[i].task_id = Task(job)
                THEN [attachments[i] EXCEPT !.status = status]
                ELSE attachments[i]
      IN  /\ lastStep'.op = "pollSuccess" =>
               /\ Len(attachments') = Len(attachments)
               /\ applied("temporary")
          /\ lastStep'.op = "pollFailure" =>
               /\ Len(attachments') = Len(attachments)
               /\ applied("failed")
               /\ lastStep'.notified ]_vars

\* The poller reported SUCCESS for one job while another attachment is
\* still indexing.
C15_Witness ==
  /\ lastStep.op = "pollSuccess"
  /\ \E i, k \in 1..Len(attachments) :
       /\ attachments[i].task_id = Task(lastStep.job)
       /\ attachments[i].status = "temporary"
       /\ attachments[k].task_id # Task(lastStep.job)
       /\ attachments[k].status = "indexing"

\* The status moves of the attachment lifecycle.
StatusMoves ==
  { <<"indexing", "temporary">>, <<"temporary", "pending_review">>,
    <<"pending_review", "promoted">>, <<"indexing", "failed">>,
    <<"pending_review", "rejected">> }

\* C16: the status of an attachment only moves along indexing -> temporary
\* -> pending_review -> promoted, indexing -> failed, or pending_review ->
\* rejected; no step moves it backwards or skips a state.
C16_StatusMonotone ==
  [][ \A i \in 1..Len(attachments), k \in 1..Len(attachments') :
        attachments[i].filename = attachments'[k].filename =>
          \/ attachments'[k].status = attachments[i].status
          \/ <<attachments[i].status, attachments'[k].status>> \in StatusMoves ]_vars

\* The same, for the steps up to which no job got a second success, failure
\* or error callback; this part of C16 holds.
StatusMonotoneWhenFiredOnce ==
  [][ (\A j \in FileIds : poller'.calls[j].fired <= 1) =>
        \A i \in 1..Len(attachments), k \in 1..Len(attachments') :
          attachments[i].filename = attachments'[k].filename =>
            \/ attachments'[k].status = attachments[i].status
            \/ <<attachments[i].status, attachments'[k].status>> \in StatusMoves ]_vars

\* C17: after startPolling(job) the first SUCCESS or FAILURE response fires
\* the matching callback exactly once, and no status query is issued for
\* the job after that.
C17_TerminalOnceThenStop ==
  [][ /\ \A j \in FileIds : poller'.calls[j].fired <= 1
      /\ lastStep'.issued => poller.calls[lastStep'.job].fired = 0 ]_vars

\* C18: when the timeout of a job elapses the timeout callback fires
\* exactly once, and no status query is issued for the job afterwards.
C18_TimeoutOnceThenStop ==
  [][ /\ \A j \in FileIds : poller'.calls[j].timeouts <= 1
      /\ lastStep'.issued => poller.calls[lastStep'.job].timeouts = 0 ]_vars

\* C19: several jobs are polled at the same time: a job for which polling
\* was started and which got no terminal or timeout callback yet is still
\* being polled, whatever other job polling was started for since.
C19_IndependentJobs ==
  \A j \in FileIds :
    (/\ poller.calls[j].started
     /\ poller.calls[j].fired = 0
     /\ poller.calls[j].timeouts = 0)
      => (poller.taskId = j \/ poller.effectTask = j)

\* C20: requestPromotion changes the attachment to pending_review, with the
\* metadata, only when the server has accepted the request; sending the
\* request changes nothing, and a failed request leaves the list unchanged
\* and is notified.
C20_PromotionAfterAcceptance ==
  [][ /\ lastStep'.op = "promote" => attachments' = attachments
      /\ lastStep'.op = "promoteFailed" =>
           (attachments' = attachments /\ lastStep'.notified)
      /\ lastStep'.op = "promoteAccepted" =>
           /\ Len(attachments') = Len(attachments)
           /\ \A i \in 1..Len(attachments) :
                attachments'[i] =
                  IF attachments[i].attachment_id = lastStep'.job
                  THEN [attachments[i] EXCEPT
                          !.status = "pending_review",
                          !.pending_review_metadata = Present("m1")]
                  ELSE attachments[i]
      /\ \A i \in 1..Len(attachments), k \in 1..Len(attachments') :
           (/\ attachments[i].filename = attachments'[k].filename
            /\ attachments[i].status # "pending_review"
            /\ attachments'[k].status = "pending_review")
             => lastStep'.op = "promoteAccepted" ]_vars

\* The server accepted the promotion of one attachment while another
\* attachment is in the list.
C20_Witness ==
  /\ lastStep.op = "promoteAccepted"
  /\ Len(attachments) = 2
  /\ \E i, k \in 1..Len(attachments) :
       /\ attachments[i].attachment_id = lastStep.job
       /\ attachments[i].status = "pending_review"
       /\ attachments[i].pending_review_metadata = Present("m1")
       /\ attachments[k].status # "pending_review"

\* C26: at most one promotion request is outstanding per attachment: no
\* request is issued for an attachment while one is in flight for it or
\* after one was accepted for it.
C26_OnePromotionOutstanding ==
  [][ lastStep'.op = "promote" =>
        /\ PromotionsOf(lastStep'.job) = {}
        /\ \A i \in 1..Len(attachments) :
             attachments[i].attachment_id = lastStep'.job
               => attachments[i].status # "pending_review" ]_vars

PollCallbacks == {"pollSuccess", "pollFailure", "pollError", "timeout"}

\* C24: when a status query fails with a request error, the error callback
\* fires once for that job and no further status query is issued for it.
C24_QueryErrorOnceThenStop ==
  [][ /\ \A j \in FileIds : poller'.calls[j].errors <= 1
      /\ lastStep'.issued => poller.calls[lastStep'.job].errors = 0 ]_vars

\* C25: when the timeout of an indexing job elapses, the job is cleared
\* from the poller, no attachment changes its status, and the user is
\* notified of the timeout.
C25_TimeoutClearsAndNotifies ==
  [][ lastStep'.op = "timeout" =>
        /\ poller'.taskId = 0
        /\ attachments' = attachments
        /\ lastStep'.notified ]_vars

\* The timeout clears the job and leaves the attachments as they are; this
\* part of C25 holds.
TimeoutClearsAndKeepsStatus ==
  [][ lastStep'.op = "timeout" =>
        /\ poller'.taskId = 0
        /\ attachments' = attachments ]_vars

\* C28: once polling of a job was stopped (setTaskId(null)) or another job
\* superseded it, no success, failure, error or timeout callback is invoked
\* for it, so no attachment is changed for it either: a callback for a job
\* is only invoked while that job is the poller's task.
C28_NoCallbackAfterStop ==
  [][ lastStep'.op \in PollCallbacks => poller.taskId = lastStep'.job ]_vars

\* The supersession case of C28 alone: no callback is invoked for a job
\* while another job is the poller's task.  It fails like C28.
SupersededJobCallback ==
  [][ lastStep'.op \in PollCallbacks => poller.taskId \in {0, lastStep'.job} ]_vars

\* The answer to a status query that arrives after the effect cleanup has
\* run invokes no callback and changes nothing; this part of C28 holds.
NoCallbackAfterCleanup ==
  [][ lastStep'.op = "pollDropped" =>
        /\ attachments' = attachments
        /\ poller'.calls = poller.calls
        /\ poller'.taskId = poller.taskId ]_vars

\* C34: the placeholder task ids are locally unique: two submissions whose
\* uploads are pending at the same time never carry the same placeholder
\* id, so that settling one upload never alters the other's entry.
C34_PlaceholderUnique ==
  /\ \A u1, u2 \in Uploads : u1.file # u2.file => u1.temp # u2.temp
  /\ \A u \in Uploads :
       \A i \in 1..Len(attachments) :
         attachments[i].task_id = Temp(u.temp) => attachments[i].filename = u.file

(***************************************************************************)
(* SpecInterleaved: the hook in one conversation, with a stream of         *)
(* sendMessage, the attachment uploads and the poller together: steps of   *)
(* Spec and of SpecAttachments in every order.  The model sends one query, *)
(* whose stream delivers token, end and error records, attaches the files  *)
(* of FileIds, and follows the status query each run of the poller's       *)
(* effect issues (the interval and the timeout are left to                 *)
(* SpecAttachments).  lastStep is written by the steps of both.            *)
(***************************************************************************)
IxInit ==
  /\ messages = <<>>
  /\ loading = FALSE
  /\ attachments = <<>>
  /\ abortControllerRef = 0
  /\ sessionId = 1
  /\ streams = [s \in StreamIds |-> NewStream]
  /\ histPending = {}
  /\ requests = {}
  /\ poller = PollerIdle
  /\ panel = PanelIdle
  /\ heap = HeapIdle
  /\ env \in {[EnvIdle EXCEPT !.outcome = o] : o \in [FileIds -> {"SUCCESS", "FAILURE"}]}
  /\ fr = NoFraming
  /\ lastStep = AStep("init", 0, FALSE, FALSE)
  /\ prevStep = "init"

IxNext ==
  \/ (streams[1].pc = "new" /\ SendMessage(<<"q">>))
  \/ \E s \in StreamIds : FetchResponse(s)
  \/ \E s \in StreamIds : Read(s)
  \/ AttachFile
  \/ \E u \in requests : UploadSucceeded(u)
  \/ PollerEffect
  \/ PollResponse
  \/ PollDropped

SpecInterleaved == IxInit /\ [][IxNext]_vars

\* The callbacks of a poll outcome (useChatSession.ts:456-480).
PollOutcomes == {"pollSuccess", "pollFailure", "pollError"}

\* C33: a poll outcome (success, failure or query error) for job J changes
\* only the attachments whose task_id is J's, and only their status; every
\* other attachment and the message list are unchanged, whatever steps of
\* other jobs and of the stream come before and after it.
C33_PollOutcomeFrame ==
  [][ lastStep'.op \in PollOutcomes =>
        /\ messages' = messages
        /\ loading' = loading
        /\ Len(attachments') = Len(attachments)
        /\ \A i \in 1..Len(attachments) :
             IF attachments[i].task_id = Task(lastStep'.job)
             THEN attachments'[i] = [attachments[i] EXCEPT !.status = attachments'[i].status]
             ELSE attachments'[i] = attachments[i] ]_vars

\* The outcome of job 1 arrived after polling of job 2 was started, while
\* the stream was delivering the answer: job 1's attachment has its final
\* status and job 2's is still indexing.
C33_Witness ==
  /\ lastStep.op \in PollOutcomes
  /\ lastStep.job = 1
  /\ poller.calls[2].started
  /\ streams[1].pc = "read"
  /\ messages # <<>>
  /\ LastOf(messages).role = "assistant"
  /\ Len(attachments) = 2
  /\ attachments[1].task_id = Task(1)
  /\ attachments[1].status \in {"temporary", "failed"}
  /\ attachments[2].task_id = Task(2)
  /\ attachments[2].status = "indexing"

(***************************************************************************)
(* SpecSwitch: uploads of handleAttachFile that are still in flight when   *)
(* the sessionId effect resets the hook's state (lines 399-413): the       *)
(* attachment steps of SpecAttachments together with the conversation      *)
(* switches and history loads of Spec.                                     *)
(***************************************************************************)
SwInit ==
  /\ messages \in HistoryLists
  /\ loading = FALSE
  /\ attachments = <<>>
  /\ abortControllerRef = 0
  /\ sessionId = 1
  /\ streams = [s \in StreamIds |-> NewStream]
  /\ histPending = {}
  /\ requests = {}
  /\ poller = PollerIdle
  /\ panel = PanelIdle
  /\ heap = HeapIdle
  /\ env = EnvIdle
  /\ fr = NoFraming
  /\ lastStep = AStep("init", 0, FALSE, FALSE)
  /\ prevStep = "init"

SwNext ==
  \/ \E c \in SessionIds \cup {0} : SelectConversation(c)
  \/ \E c \in SessionIds : HistoryLoaded(c)
  \/ \E c \in SessionIds : HistoryFailed(c)
  \/ AttachFile
  \/ \E u \in requests : UploadSucceeded(u)
  \/ \E u \in requests : UploadFailed(u)

SpecSwitch == SwInit /\ [][SwNext]_vars

\* Upload u settles in this step, after the list was reset: the entry its
\* submission added is not in the list any more.
SettlesAfterReset(u) ==
  /\ u \in Uploads
  /\ u \notin Uploads'
  /\ EntriesOf(attachments, u.file) = {}

\* C39: an upload that settles (success or failure) after the conversation
\* was switched or reset adds no attachment to the attachment list of the
\* conversation that is active now and modifies none of its attachments.
C39_LateUploadLeavesList ==
  [][ \A u \in requests : SettlesAfterReset(u) => attachments' = attachments ]_vars

\* The same, while no two submissions read the same clock value; this part
\* of C39 holds.
LateUploadLeavesListWhenClockAdvanced ==
  [][ \A u \in requests :
        (ClockAdvanced /\ SettlesAfterReset(u)) => attachments' = attachments ]_vars

(***************************************************************************)
(* SpecTimer: the poller's timeout with time.  env is the clock and what   *)
(* it read: now, startedAt (the time of startPolling) and armedAt (the     *)
(* time the live effect called setTimeout).  One file is attached and its  *)
(* job stays PENDING.  A render and the effects it runs take no time, and  *)
(* a timer fires when it is due: time passes only when no effect is        *)
(* waiting to run and the live timeout is not due.                         *)
(***************************************************************************)
\* timeoutMs (useTaskPolling.ts:24) in ticks of the model's clock.
TimeoutTicks == 2

MaxClock == 4

TmInit ==
  /\ messages = <<>>
  /\ loading = FALSE
  /\ attachments = <<>>
  /\ abortControllerRef = 0
  /\ sessionId = 1
  /\ streams = [s \in StreamIds |-> NewStream]
  /\ histPending = {}
  /\ requests = {}
  /\ poller = PollerIdle
  /\ panel = PanelIdle
  /\ heap = HeapIdle
  /\ env = [now |-> 0, startedAt |-> 0, armedAt |-> 0]
  /\ fr = NoFraming
  /\ lastStep = AStep("init", 0, FALSE, FALSE)
  /\ prevStep = "init"

\* handleAttachFile up to the await (lines 489-520), for file 1.
TmAttach ==
  /\ attachments = <<>>
  /\ requests = {}
  /\ ~poller.calls[1].started
  /\ attachments' = <<tempAttachment(1, Temp(env.now))>>
  /\ requests' = {[kind |-> "upload", file |-> 1, temp |-> env.now]}
  /\ lastStep' = AStep("attach", 1, FALSE, FALSE)
  /\ UNCHANGED <<poller, env, attVars>>

\* The upload succeeds (lines 522-537): startPolling(result.task_id).
TmUploaded ==
  \E u \in Uploads :
    /\ attachments' = rekey(attachments, Temp(u.temp), Task(u.file), u.file)
    /\ poller' = startPolling(poller, u.file)
    /\ env' = [env EXCEPT !.startedAt = env.now]
    /\ requests' = requests \ {u}
    /\ lastStep' = AStep("uploaded", u.file, FALSE, FALSE)
    /\ UNCHANGED attVars

\* React commits a render of useChatSession and runs the poller's effect
\* (useTaskPolling.ts:32-75): after setTaskId, and after every other render
\* as well, because the callbacks useChatSession passes (lines 455-480) are
\* new functions on each render and are dependencies of the effect (lines
\* 76-86).  The cleanup clears the timeout, the new run arms it again.
TmEffect ==
  /\ poller.effectTask # 0 \/ poller.taskId # 0
  /\ poller' = runEffect(poller)
  /\ env' = [env EXCEPT !.armedAt = IF poller.taskId # 0 THEN env.now ELSE @]
  /\ lastStep' = AStep("effect", poller.taskId, FALSE, poller.taskId # 0)
  /\ UNCHANGED <<attachments, requests, attVars>>

\* The interval fires (useTaskPolling.ts:64).
TmTick ==
  /\ poller.effectTask # 0
  /\ poller.inflight < MaxInFlight
  /\ poller' = [poller EXCEPT !.inflight = @ + 1]
  /\ lastStep' = AStep("tick", poller.effectTask, FALSE, TRUE)
  /\ UNCHANGED <<attachments, requests, env, attVars>>

\* A status query of the live effect is answered PENDING (lines 47-55):
\* no branch is taken.
TmPending ==
  /\ poller.inflight > 0
  /\ poller' = [poller EXCEPT !.inflight = @ - 1]
  /\ lastStep' = AStep("pollPending", poller.effectTask, FALSE, FALSE)
  /\ UNCHANGED <<attachments, requests, env, attVars>>

\* A status query of a cleaned-up effect is answered (line 47).
TmDropped ==
  /\ poller.stale > 0
  /\ poller' = [poller EXCEPT !.stale = @ - 1]
  /\ lastStep' = AStep("pollDropped", 0, FALSE, FALSE)
  /\ UNCHANGED <<attachments, requests, env, attVars>>

\* The live timeout is due.
TimeoutDue ==
  /\ poller.effectTask # 0
  /\ poller.timeout
  /\ env.now >= env.armedAt + TimeoutTicks

\* The timeout fires (useTaskPolling.ts:65-69).
TmTimeout ==
  /\ TimeoutDue
  /\ poller' = [poller EXCEPT !.timeout = FALSE, !.taskId = 0,
                              !.calls[poller.effectTask].timeouts = Min(2, @ + 1)]
  /\ lastStep' = AStep("timeout", poller.effectTask, FALSE, FALSE)
  /\ UNCHANGED <<attachments, requests, env, attVars>>

\* One tick of time passes.
TmElapse ==
  /\ env.now < MaxClock
  /\ poller.effectTask = poller.taskId
  /\ ~TimeoutDue
  /\ env' = [env EXCEPT !.now = @ + 1]
  /\ lastStep' = AStep("elapse", 0, FALSE, FALSE)
  /\ UNCHANGED <<attachments, requests, poller, attVars>>

TmNext ==
  \/ TmAttach
  \/ TmUploaded
  \/ TmEffect
  \/ TmTick
  \/ TmPending
  \/ TmDropped
  \/ TmTimeout
  \/ TmElapse

SpecTimer == TmInit /\ [][TmNext]_vars

\* C40: a job whose status stays PENDING is dropped by the poller once the
\* timeout, counted from startPolling, has elapsed, also when the host
\* component renders again while the job is polled: the poller does not
\* hold the job later than TimeoutTicks after startPolling.
C40_TimeoutFromStartPolling ==
  (poller.calls[1].started /\ poller.taskId # 0)
    => env.now <= env.startedAt + TimeoutTicks

\* The same, while the timeout that is armed is the one armed at the time
\* of startPolling; this part of C40 holds.
DroppedInTimeWithoutRerender ==
  (poller.calls[1].started /\ poller.taskId # 0 /\ env.armedAt = env.startedAt)
    => env.now <= env.startedAt + TimeoutTicks

(***************************************************************************)
(* SpecAdmin: AdminReviewPanel (ContextPanel.tsx:229-302), rendered inside *)
(* ContextPanel, whose useTaskPolling instance (lines 328-338) is `poller`. *)
(* env is the server: the attachment ids pending review and the ids whose   *)
(* approval has started a copy job; the task id of attachment i's copy job  *)
(* is i.  requests holds the list query and the mutations in flight.        *)
(***************************************************************************)
RECURSIVE AsList(_)
AsList(ids) ==
  IF ids = {}
  THEN <<>>
  ELSE LET first == CHOOSE i \in ids : \A k \in ids : i <= k
       IN  <<first>> \o AsList(ids \ {first})

ListQuery == [kind |-> "list"]

Mutations == {r \in requests : r.kind \in {"approve", "reject"}}

AdminInit ==
  /\ messages = <<>>
  /\ loading = FALSE
  /\ attachments = <<>>
  /\ abortControllerRef = 0
  /\ sessionId = 0
  /\ streams = [s \in StreamIds |-> NewStream]
  /\ histPending = {}
  /\ requests = {ListQuery}
  /\ poller = PollerIdle
  /\ panel = PanelIdle
  /\ heap = HeapIdle
  /\ env \in {[pending |-> ids, jobs |-> {}] : ids \in SUBSET FileIds}
  /\ fr = NoFraming
  /\ lastStep = AStep("init", 0, FALSE, FALSE)
  /\ prevStep = "init"

adminVars == <<messages, loading, attachments, abortControllerRef, sessionId,
               streams, histPending, fr, prevStep, heap>>

\* The query of the pending list resolves (lines 234-239).
PendingLoaded ==
  /\ ListQuery \in requests
  /\ panel' = [panel EXCEPT !.pending = AsList(env.pending)]
  /\ requests' = requests \ {ListQuery}
  /\ lastStep' = AStep("listed", 0, FALSE, FALSE)
  /\ UNCHANGED <<poller, env, adminVars>>

\* The review button of a listed attachment (line 288), disabled while a
\* mutation is pending.
ReviewSelect ==
  /\ Mutations = {}
  /\ \E i \in 1..Len(panel.pending) :
       /\ panel' = [panel EXCEPT !.selected = panel.pending[i]]
       /\ lastStep' = AStep("select", panel.pending[i], FALSE, FALSE)
  /\ UNCHANGED <<requests, poller, env, adminVars>>

\* The approval dialog is closed (line 296).
ReviewClose ==
  /\ panel.selected # 0
  /\ panel' = [panel EXCEPT !.selected = 0]
  /\ lastStep' = AStep("close", 0, FALSE, FALSE)
  /\ UNCHANGED <<requests, poller, env, adminVars>>

\* The approval dialog is submitted (line 297): approveMutate sends the
\* request (lines 242-249).  The model follows one approval per attachment
\* at a time.
Approve ==
  /\ panel.selected # 0
  /\ [kind |-> "approve", id |-> panel.selected] \notin requests
  /\ requests' = requests \cup {[kind |-> "approve", id |-> panel.selected]}
  /\ lastStep' = AStep("approve", panel.selected, FALSE, FALSE)
  /\ UNCHANGED <<poller, env, panel, adminVars>>

\* The server approves and answers with the task id of the copy job it has
\* started; onSuccess (lines 250-255) notifies, invalidates the list query
\* and closes the dialog.
ApprovalAccepted(r) ==
  /\ r \in requests
  /\ r.kind = "approve"
  /\ r.id \in env.pending
  /\ env' = [env EXCEPT !.pending = @ \ {r.id}, !.jobs = @ \cup {r.id}]
  /\ requests' = (requests \ {r}) \cup {ListQuery}
  /\ panel' = [panel EXCEPT !.selected = 0]
  /\ lastStep' = AStep("approved", r.id, TRUE, FALSE)
  /\ UNCHANGED <<poller, adminVars>>

\* The approval request fails; onError (line 256) notifies.
ApprovalFailed(r) ==
  /\ r \in requests
  /\ r.kind = "approve"
  /\ requests' = requests \ {r}
  /\ lastStep' = AStep("approveFailed", r.id, TRUE, FALSE)
  /\ UNCHANGED <<poller, env, panel, adminVars>>

\* The reject button of a listed attachment (line 287): rejectMutate sends
\* the request (lines 259-265).
Reject ==
  /\ Mutations = {}
  /\ \E i \in 1..Len(panel.pending) :
       /\ requests' = requests \cup {[kind |-> "reject", id |-> panel.pending[i]]}
       /\ lastStep' = AStep("reject", panel.pending[i], FALSE, FALSE)
  /\ UNCHANGED <<poller, env, panel, adminVars>>

\* The server rejects the promotion; onSuccess (lines 266-269) notifies and
\* invalidates the list query.
RejectAccepted(r) ==
  /\ r \in requests
  /\ r.kind = "reject"
  /\ r.id \in env.pending
  /\ env' = [env EXCEPT !.pending = @ \ {r.id}]
  /\ requests' = (requests \ {r}) \cup {ListQuery}
  /\ lastStep' = AStep("rejected", r.id, TRUE, FALSE)
  /\ UNCHANGED <<poller, panel, adminVars>>

\* The reject request fails; onError (line 270) notifies.
RejectFailed(r) ==
  /\ r \in requests
  /\ r.kind = "reject"
  /\ requests' = requests \ {r}
  /\ lastStep' = AStep("rejectFailed", r.id, TRUE, FALSE)
  /\ UNCHANGED <<poller, env, panel, adminVars>>

AdminNext ==
  \/ PendingLoaded
  \/ ReviewSelect
  \/ ReviewClose
  \/ Approve
  \/ \E r \in requests : ApprovalAccepted(r)
  \/ \E r \in requests : ApprovalFailed(r)
  \/ Reject
  \/ \E r \in requests : RejectAccepted(r)
  \/ \E r \in requests : RejectFailed(r)

SpecAdmin == AdminInit /\ [][AdminNext]_vars

\* C27: when an approval has succeeded and returned the task id of the copy
\* job, status polling is started for that task id.
C27_ApprovalStartsPolling ==
  [][ lastStep'.op = "approved" =>
        /\ poller'.taskId = lastStep'.job
        /\ poller'.calls[lastStep'.job].started ]_vars

\* What the approval does do: the copy job runs on the server, the user is
\* notified, the list is fetched again and the dialog is closed; this holds.
ApprovalNotifiesAndRefreshes ==
  [][ lastStep'.op = "approved" =>
        /\ lastStep'.job \in env'.jobs
        /\ lastStep'.notified
        /\ ListQuery \in requests'
        /\ panel'.selected = 0 ]_vars

====
